---- MODULE Spec2Model ----
(***************************************************************************)
(* Model of the Boop rules engine (class BoopGame, server/src/game/        *)
(* GameState.ts, kept here as src/unnamed/part_010) together with the      *)
(* caller that drives it.  The engine state is the set of private fields   *)
(* of BoopGame; every public method is one action.  The private helpers    *)
(* are operators on a record `g` that carries the fields of `this`.        *)
(***************************************************************************)
EXTENDS Integers, Sequences, FiniteSets, TLC

VARIABLES
  board,                     \* this.board: cell -> piece or NoPiece
  players,                   \* this.players: color -> PlayerState or NoPlayer
  currentTurn,               \* this.currentTurn
  phase,                     \* this.phase
  winner,                    \* this.winner ("none" for null)
  lastMove,                  \* this.lastMove (NoCell for null)
  boopedPieces,              \* this.boopedPieces
  graduatedPieces,           \* this.graduatedPieces
  pendingGraduationOptions,  \* this.pendingGraduationOptions (<<>> for null)
  pendingGraduationPlayer,   \* this.pendingGraduationPlayer ("none" for null)
  playerRooms,               \* RoomManager.playerRooms: the socketIds mapped to the room
  playerTokens,              \* RoomManager.playerTokens: socketId -> token ("none": no entry)
  disconnectedPlayers,       \* RoomManager.disconnectedPlayers: token -> record
  closed,                    \* the connections that have ended
  call,                      \* the last call made on the engine (method and arguments)
  result,                    \* what that call returned
  script,                    \* caller: the calls it still has to replay
  steps,                     \* caller: number of calls made after the replay
  transpositionTable,        \* BotAI.transpositionTable of the bot of the game
  moveCount                  \* moveCount of the loop of a bot-vs-bot game

engineVars == <<board, players, currentTurn, phase, winner, lastMove,
                boopedPieces, graduatedPieces, pendingGraduationOptions,
                pendingGraduationPlayer>>
roomVars == <<playerRooms, playerTokens, disconnectedPlayers, closed>>
vars == <<board, players, currentTurn, phase, winner, lastMove,
          boopedPieces, graduatedPieces, pendingGraduationOptions,
          pendingGraduationPlayer, playerRooms, playerTokens,
          disconnectedPlayers, closed, call, result, script, steps,
          transpositionTable, moveCount>>

----------------------------------------------------------------------------
(* Program constants and types                                             *)

BOARD_SIZE == 6
STARTING_KITTENS == 8
MAX_CATS == 8

PlayerColor == {"orange", "gray"}
PieceType == {"kitten", "cat"}
Cells == (0 .. BOARD_SIZE - 1) \X (0 .. BOARD_SIZE - 1)

\* null values: every value of one kind has the same shape
NoPiece == [color |-> "none", type |-> "none"]
NoCell == <<-1, -1>>
NoPlayer == [color |-> "none", kittensInPool |-> 0, catsInPool |-> 0,
             kittensRetired |-> 0, socketId |-> "none", connected |-> FALSE,
             playerToken |-> "none"]

DIRECTIONS == << <<-1, -1>>, <<-1, 0>>, <<-1, 1>>,
                 <<0, -1>>,             <<0, 1>>,
                 <<1, -1>>,  <<1, 0>>,  <<1, 1>> >>

LINE_DIRECTIONS == << <<0, 1>>, <<1, 0>>, <<1, 1>>, <<1, -1>> >>

otherColor(c) == IF c = "orange" THEN "gray" ELSE "orange"

createEmptyBoard == [cell \in Cells |-> NoPiece]

\* the fields of a freshly constructed BoopGame
NewGame ==
  [board |-> createEmptyBoard,
   players |-> [c \in PlayerColor |-> NoPlayer],
   currentTurn |-> "orange",
   phase |-> "waiting",
   winner |-> "none",
   lastMove |-> NoCell,
   boopedPieces |-> <<>>,
   graduatedPieces |-> <<>>,
   pendingGraduationOptions |-> <<>>,
   pendingGraduationPlayer |-> "none"]

\* the fields of `this` in the current state
This ==
  [board |-> board,
   players |-> players,
   currentTurn |-> currentTurn,
   phase |-> phase,
   winner |-> winner,
   lastMove |-> lastMove,
   boopedPieces |-> boopedPieces,
   graduatedPieces |-> graduatedPieces,
   pendingGraduationOptions |-> pendingGraduationOptions,
   pendingGraduationPlayer |-> pendingGraduationPlayer]

----------------------------------------------------------------------------
(* Board helpers                                                           *)

isValidPosition(row, col) ==
  row >= 0 /\ row < BOARD_SIZE /\ col >= 0 /\ col < BOARD_SIZE

getPiece(b, row, col) ==
  IF ~isValidPosition(row, col) THEN NoPiece ELSE b[<<row, col>>]

getPlayerBySocketId(g, socketId) ==
  IF g.players["orange"] # NoPlayer /\ g.players["orange"].socketId = socketId
    THEN g.players["orange"]
  ELSE IF g.players["gray"] # NoPlayer /\ g.players["gray"].socketId = socketId
    THEN g.players["gray"]
  ELSE NoPlayer

countPiecesOnBoard(b, playerColor) ==
  Cardinality({cell \in Cells : b[cell].color = playerColor})

RECURSIVE getLineFromPosition(_, _, _, _, _, _)
getLineFromPosition(b, row, col, dRow, dCol, playerColor) ==
  IF isValidPosition(row, col) /\ b[<<row, col>>].color = playerColor
    THEN << <<row, col>> >> \o
         getLineFromPosition(b, row + dRow, col + dCol, dRow, dCol, playerColor)
    ELSE <<>>

checkCatLineFromPosition(b, startRow, startCol, dRow, dCol, playerColor) ==
  \A i \in 0 .. 2 :
    /\ isValidPosition(startRow + i * dRow, startCol + i * dCol)
    /\ b[<<startRow + i * dRow, startCol + i * dCol>>] =
         [color |-> playerColor, type |-> "cat"]

\* "three_cats_in_row", "all_eight_cats" or "none" (null)
checkWinCondition(g, playerColor) ==
  IF g.players[playerColor] = NoPlayer THEN "none"
  ELSE IF \E cell \in Cells : \E i \in 1 .. Len(LINE_DIRECTIONS) :
            checkCatLineFromPosition(g.board, cell[1], cell[2],
              LINE_DIRECTIONS[i][1], LINE_DIRECTIONS[i][2], playerColor)
    THEN "three_cats_in_row"
  ELSE IF Cardinality({cell \in Cells :
            g.board[cell] = [color |-> playerColor, type |-> "cat"]}) >= 8
    THEN "all_eight_cats"
  ELSE "none"

----------------------------------------------------------------------------
(* executeBoop: one pass over DIRECTIONS, each step on the board left by   *)
(* the steps before it                                                     *)

\* "Execute the boop": the neighbor leaves adj for dest, or for its owner's
\* pool when dest is off the board
moveBooped(g, adj, dest, adjPiece) ==
  IF isValidPosition(dest[1], dest[2])
    THEN [g EXCEPT
            !.board = [@ EXCEPT ![adj] = NoPiece, ![dest] = adjPiece],
            !.boopedPieces = Append(@, [from |-> adj, to |-> dest])]
    ELSE [g EXCEPT
            !.board = [@ EXCEPT ![adj] = NoPiece],
            !.players =
              IF g.players[adjPiece.color] = NoPlayer THEN @
              ELSE IF adjPiece.type = "kitten"
                THEN [@ EXCEPT ![adjPiece.color].kittensInPool = @ + 1]
                ELSE [@ EXCEPT ![adjPiece.color].catsInPool = @ + 1],
            !.boopedPieces = Append(@, [from |-> adj, to |-> NoCell])]

\* boopDirection without the check of an occupied destination
boopDirection_unblocked(g, placedRow, placedCol, placedType, d) ==
  LET adj == <<placedRow + d[1], placedCol + d[2]>>
      adjPiece == getPiece(g.board, adj[1], adj[2])
      dest == <<adj[1] + d[1], adj[2] + d[2]>>
  IN  IF adjPiece = NoPiece THEN g
      ELSE IF placedType = "kitten" /\ adjPiece.type = "cat" THEN g
      ELSE moveBooped(g, adj, dest, adjPiece)

\* boopDirection without the rule that kittens cannot boop cats
boopDirection_kittenBoopsCat(g, placedRow, placedCol, placedType, d) ==
  LET adj == <<placedRow + d[1], placedCol + d[2]>>
      adjPiece == getPiece(g.board, adj[1], adj[2])
      dest == <<adj[1] + d[1], adj[2] + d[2]>>
  IN  IF adjPiece = NoPiece THEN g
      ELSE IF isValidPosition(dest[1], dest[2]) /\ g.board[dest] # NoPiece THEN g
      ELSE moveBooped(g, adj, dest, adjPiece)

\* boopDirection that pushes the occupant of the destination along
boopDirection_chained(g, placedRow, placedCol, placedType, d) ==
  LET adj == <<placedRow + d[1], placedCol + d[2]>>
      adjPiece == getPiece(g.board, adj[1], adj[2])
      dest == <<adj[1] + d[1], adj[2] + d[2]>>
      beyond == <<dest[1] + d[1], dest[2] + d[2]>>
  IN  IF adjPiece = NoPiece THEN g
      ELSE IF placedType = "kitten" /\ adjPiece.type = "cat" THEN g
      ELSE IF isValidPosition(dest[1], dest[2]) /\ g.board[dest] # NoPiece
        THEN moveBooped(moveBooped(g, dest, beyond, g.board[dest]), adj, dest, adjPiece)
      ELSE moveBooped(g, adj, dest, adjPiece)

\* the body of the for loop for one direction d = <<dRow, dCol>>
boopDirection(g, placedRow, placedCol, placedType, d) ==
  LET adj == <<placedRow + d[1], placedCol + d[2]>>
      adjPiece == getPiece(g.board, adj[1], adj[2])
      dest == <<adj[1] + d[1], adj[2] + d[2]>>
  IN  IF adjPiece = NoPiece THEN g
      ELSE IF placedType = "kitten" /\ adjPiece.type = "cat" THEN g
      ELSE IF isValidPosition(dest[1], dest[2]) /\ g.board[dest] # NoPiece THEN g
      ELSE moveBooped(g, adj, dest, adjPiece)

RECURSIVE boopFrom(_, _, _, _, _)
boopFrom(g, placedRow, placedCol, placedType, i) ==
  IF i > Len(DIRECTIONS) THEN g
  ELSE boopFrom(boopDirection(g, placedRow, placedCol, placedType, DIRECTIONS[i]),
                placedRow, placedCol, placedType, i + 1)

executeBoop(g, placedRow, placedCol, placedPiece) ==
  boopFrom(g, placedRow, placedCol, placedPiece.type, 1)

\* the same loop body run over the directions in another order
RECURSIVE boopInOrder(_, _, _, _, _)
boopInOrder(g, placedRow, placedCol, placedType, order) ==
  IF order = <<>> THEN g
  ELSE boopInOrder(boopDirection(g, placedRow, placedCol, placedType, Head(order)),
                   placedRow, placedCol, placedType, Tail(order))

----------------------------------------------------------------------------
(* Graduation                                                              *)

hasKitten(b, cells) == \E k \in 1 .. Len(cells) : b[cells[k]].type = "kitten"

\* c.row + "," + c.col, compared as the strings are: rows and columns are
\* single digits, so the string order is the order of <<row, col>>
cellKeyLess(a, c) == a[1] < c[1] \/ (a[1] = c[1] /\ a[2] < c[2])

\* option.map(c => `${c.row},${c.col}`).sort().join('|')
optionKey(option) == SortSeq(option, cellKeyLess)

\* addWindows without the set of keys seen
addWindows_unseen(b, line, i, acc) ==
  LET windows == [n \in 1 .. Len(line) - 2 |-> SubSeq(line, n, n + 2)]
  IN  [options |-> acc.options \o
                     SelectSeq(SubSeq(windows, i + 1, Len(line) - 2),
                               LAMBDA option : hasKitten(b, option)),
       seen |-> acc.seen]

\* the windows line.slice(i, i + 3), i = from .. line.length - 3, of one line
RECURSIVE addWindows(_, _, _, _)
addWindows(b, line, i, acc) ==
  IF i > Len(line) - 3 THEN acc
  ELSE LET option == SubSeq(line, i + 1, i + 3)
           key == optionKey(option)
       IN  IF hasKitten(b, option) /\ key \notin acc.seen
             THEN addWindows(b, line, i + 1,
                    [options |-> Append(acc.options, option),
                     seen |-> acc.seen \cup {key}])
             ELSE addWindows(b, line, i + 1, acc)

\* the scan order of the three nested loops: row, col, LINE_DIRECTIONS
ScanOrder ==
  [n \in 1 .. BOARD_SIZE * BOARD_SIZE * Len(LINE_DIRECTIONS) |->
     [row |-> (n - 1) \div (BOARD_SIZE * Len(LINE_DIRECTIONS)),
      col |-> ((n - 1) \div Len(LINE_DIRECTIONS)) % BOARD_SIZE,
      d |-> LINE_DIRECTIONS[((n - 1) % Len(LINE_DIRECTIONS)) + 1]]]

\* the line the scan finds at position n of the scan order
lineAt(b, playerColor, n) ==
  getLineFromPosition(b, ScanOrder[n].row, ScanOrder[n].col,
                      ScanOrder[n].d[1], ScanOrder[n].d[2], playerColor)

\* the scan positions that reach the window loop: a line of three or more
\* with a kitten in it (everywhere else the loop body does nothing)
lineStarts(b, playerColor) ==
  {n \in DOMAIN ScanOrder :
     /\ b[<<ScanOrder[n].row, ScanOrder[n].col>>].color = playerColor
     /\ Len(lineAt(b, playerColor, n)) >= 3
     /\ hasKitten(b, lineAt(b, playerColor, n))}

\* the scan, over the positions still to visit, in scan order
RECURSIVE scanOptions(_, _, _, _)
scanOptions(b, playerColor, todo, acc) ==
  IF todo = {} THEN acc.options
  ELSE LET n == CHOOSE x \in todo : \A y \in todo : x <= y
       IN  scanOptions(b, playerColor, todo \ {n},
                       addWindows(b, lineAt(b, playerColor, n), 0, acc))

findGraduationOptions(b, playerColor) ==
  scanOptions(b, playerColor, lineStarts(b, playerColor),
              [options |-> <<>>, seen |-> {}])

\* graduateCell that forgets the cat of a line: it leaves the board and is
\* not returned to the pool
graduateCell_catLost(g, cell, playerColor) ==
  LET piece == g.board[cell]
  IN  IF piece = NoPiece THEN g
      ELSE [g EXCEPT
              !.board = [@ EXCEPT ![cell] = NoPiece],
              !.graduatedPieces = Append(@, cell),
              !.players =
                IF piece.type = "kitten"
                  THEN [@ EXCEPT ![playerColor].kittensRetired = @ + 1,
                                 ![playerColor].catsInPool = @ + 1]
                  ELSE @]

\* the body of the for loop of executeGraduationOption for one cell
graduateCell(g, cell, playerColor) ==
  LET piece == g.board[cell]
  IN  IF piece = NoPiece THEN g
      ELSE [g EXCEPT
              !.board = [@ EXCEPT ![cell] = NoPiece],
              !.graduatedPieces = Append(@, cell),
              !.players =
                IF piece.type = "kitten"
                  THEN [@ EXCEPT ![playerColor].kittensRetired = @ + 1,
                                 ![playerColor].catsInPool = @ + 1]
                  ELSE [@ EXCEPT ![playerColor].catsInPool = @ + 1]]

RECURSIVE graduateFrom(_, _, _, _)
graduateFrom(g, option, playerColor, k) ==
  IF k > Len(option) THEN g
  ELSE graduateFrom(graduateCell(g, option[k], playerColor), option, playerColor, k + 1)

\* returns the new fields and catsEarned
executeGraduationOption(g, option, playerColor) ==
  IF g.players[playerColor] = NoPlayer THEN [g |-> g, ret |-> 0]
  ELSE LET h == graduateFrom(g, option, playerColor, 1)
       IN  [g |-> h,
            ret |-> h.players[playerColor].kittensRetired
                    - g.players[playerColor].kittensRetired]

\* row-major index of a cell
rowMajor(cell) == cell[1] * BOARD_SIZE + cell[2]

\* forcedGraduation that takes the last kitten in row-major order
forcedGraduation_lastKitten(g, playerColor) ==
  LET player == g.players[playerColor]
      kittens == {cell \in Cells :
                    g.board[cell] = [color |-> playerColor, type |-> "kitten"]}
      last == CHOOSE cell \in kittens :
                \A other \in kittens : rowMajor(cell) >= rowMajor(other)
  IN  IF countPiecesOnBoard(g.board, playerColor) >= 8
         /\ player.kittensRetired + player.catsInPool < MAX_CATS
         /\ kittens # {}
        THEN [g |-> [g EXCEPT
                       !.board = [@ EXCEPT ![last] = NoPiece],
                       !.players = [@ EXCEPT
                          ![playerColor].kittensRetired = @ + 1,
                          ![playerColor].catsInPool = @ + 1],
                       !.graduatedPieces = Append(@, last)],
              ret |-> 1]
        ELSE [g |-> g, ret |-> 0]

\* the branch options.length === 0: with eight pieces on the board and fewer
\* than MAX_CATS cats earned, the first kitten in row-major order graduates
forcedGraduation(g, playerColor) ==
  LET player == g.players[playerColor]
      kittens == {cell \in Cells :
                    g.board[cell] = [color |-> playerColor, type |-> "kitten"]}
      first == CHOOSE cell \in kittens :
                 \A other \in kittens : rowMajor(cell) <= rowMajor(other)
  IN  IF countPiecesOnBoard(g.board, playerColor) >= 8
         /\ player.kittensRetired + player.catsInPool < MAX_CATS
         /\ kittens # {}
        THEN [g |-> [g EXCEPT
                       !.board = [@ EXCEPT ![first] = NoPiece],
                       !.players = [@ EXCEPT
                          ![playerColor].kittensRetired = @ + 1,
                          ![playerColor].catsInPool = @ + 1],
                       !.graduatedPieces = Append(@, first)],
              ret |-> 1]
        ELSE [g |-> g, ret |-> 0]

\* checkAndExecuteGraduation that applies the first of several options at once
checkAndExecuteGraduation_firstOption(g, playerColor) ==
  LET options == findGraduationOptions(g.board, playerColor)
  IN  IF g.players[playerColor] = NoPlayer THEN [g |-> g, ret |-> 0]
      ELSE IF Len(options) = 0 THEN forcedGraduation(g, playerColor)
      ELSE executeGraduationOption(g, options[1], playerColor)

\* returns the new fields and the number of cats earned
checkAndExecuteGraduation(g, playerColor) ==
  LET options == findGraduationOptions(g.board, playerColor)
  IN  IF g.players[playerColor] = NoPlayer THEN [g |-> g, ret |-> 0]
      ELSE IF Len(options) = 0 THEN forcedGraduation(g, playerColor)
      ELSE IF Len(options) = 1 THEN
        executeGraduationOption(g, options[1], playerColor)
      ELSE [g |-> [g EXCEPT
                     !.pendingGraduationOptions = options,
                     !.pendingGraduationPlayer = playerColor,
                     !.phase = "selecting_graduation"],
            ret |-> 0]

----------------------------------------------------------------------------
(* The public methods, as functions from the fields of `this` to the new   *)
(* fields and the returned value.  The player's display name is stored     *)
(* and never read, so it is left out of PlayerState.                       *)

\* the PlayerState addPlayer writes into a slot that held `old`
seatPlayer(old, color, socketId, playerToken) ==
  [color |-> color,
   kittensInPool |-> IF old = NoPlayer THEN STARTING_KITTENS ELSE old.kittensInPool,
   catsInPool |-> IF old = NoPlayer THEN 0 ELSE old.catsInPool,
   kittensRetired |-> IF old = NoPlayer THEN 0 ELSE old.kittensRetired,
   socketId |-> socketId,
   connected |-> TRUE,
   playerToken |-> playerToken]

addPlayer(g, socketId, playerToken) ==
  LET orange == g.players["orange"]
      gray == g.players["gray"]
      orangeAvailable == orange = NoPlayer \/ ~orange.connected
      grayAvailable == gray = NoPlayer \/ ~gray.connected
  IN  IF orange = NoPlayer \/ (~orange.connected /\ orangeAvailable) THEN
        [g |-> [g EXCEPT
                  !.players = [@ EXCEPT !["orange"] =
                                 seatPlayer(orange, "orange", socketId, playerToken)],
                  !.phase = IF gray.connected THEN "playing" ELSE @],
         ret |-> "orange"]
      ELSE IF gray = NoPlayer \/ (~gray.connected /\ grayAvailable) THEN
        [g |-> [g EXCEPT
                  !.players = [@ EXCEPT !["gray"] =
                                 seatPlayer(gray, "gray", socketId, playerToken)],
                  !.phase = IF orange.connected THEN "playing" ELSE @],
         ret |-> "gray"]
      ELSE [g |-> g, ret |-> "none"]

\* disconnectPlayer that flips the connected flag of the slot
disconnectPlayer_flip(g, socketId) ==
  IF g.players["orange"] # NoPlayer /\ g.players["orange"].socketId = socketId THEN
    [g |-> [g EXCEPT !.players = [@ EXCEPT !["orange"].connected = ~@]],
     ret |-> "orange"]
  ELSE IF g.players["gray"] # NoPlayer /\ g.players["gray"].socketId = socketId THEN
    [g |-> [g EXCEPT !.players = [@ EXCEPT !["gray"].connected = ~@]],
     ret |-> "gray"]
  ELSE [g |-> g, ret |-> "none"]

disconnectPlayer(g, socketId) ==
  IF g.players["orange"] # NoPlayer /\ g.players["orange"].socketId = socketId THEN
    [g |-> [g EXCEPT !.players = [@ EXCEPT !["orange"].connected = FALSE]],
     ret |-> "orange"]
  ELSE IF g.players["gray"] # NoPlayer /\ g.players["gray"].socketId = socketId THEN
    [g |-> [g EXCEPT !.players = [@ EXCEPT !["gray"].connected = FALSE]],
     ret |-> "gray"]
  ELSE [g |-> g, ret |-> "none"]

removePlayer(g, socketId) ==
  IF g.players["orange"] # NoPlayer /\ g.players["orange"].socketId = socketId THEN
    [g |-> [g EXCEPT !.players = [@ EXCEPT !["orange"] = NoPlayer]], ret |-> "orange"]
  ELSE IF g.players["gray"] # NoPlayer /\ g.players["gray"].socketId = socketId THEN
    [g |-> [g EXCEPT !.players = [@ EXCEPT !["gray"] = NoPlayer]], ret |-> "gray"]
  ELSE [g |-> g, ret |-> "none"]

\* rejoinPlayer that resumes play from any phase
rejoinPlayer_anyPhase(g, socketId, playerToken, color) ==
  LET player == g.players[color]
      h == [g EXCEPT !.players = [@ EXCEPT ![color].socketId = socketId,
                                           ![color].connected = TRUE]]
  IN  IF player = NoPlayer THEN [g |-> g, ret |-> "false"]
      ELSE IF player.playerToken # playerToken THEN [g |-> g, ret |-> "false"]
      ELSE [g |-> IF h.players["orange"].connected /\ h.players["gray"].connected
                    THEN [h EXCEPT !.phase = "playing"]
                    ELSE h,
            ret |-> "true"]

rejoinPlayer(g, socketId, playerToken, color) ==
  LET player == g.players[color]
      h == [g EXCEPT !.players = [@ EXCEPT ![color].socketId = socketId,
                                           ![color].connected = TRUE]]
  IN  IF player = NoPlayer THEN [g |-> g, ret |-> "false"]
      ELSE IF player.playerToken # playerToken THEN [g |-> g, ret |-> "false"]
      ELSE [g |-> IF h.players["orange"].connected /\ h.players["gray"].connected
                     /\ h.phase = "waiting"
                    THEN [h EXCEPT !.phase = "playing"]
                    ELSE h,
            ret |-> "true"]

getPlayerColorByToken(g, playerToken) ==
  IF g.players["orange"] # NoPlayer /\ g.players["orange"].playerToken = playerToken
    THEN "orange"
  ELSE IF g.players["gray"] # NoPlayer /\ g.players["gray"].playerToken = playerToken
    THEN "gray"
  ELSE "none"

updatePlayerSocket(g, playerToken, newSocketId) ==
  IF g.players["orange"] # NoPlayer /\ g.players["orange"].playerToken = playerToken THEN
    [g |-> [g EXCEPT !.players = [@ EXCEPT !["orange"].socketId = newSocketId,
                                           !["orange"].connected = TRUE]],
     ret |-> "true"]
  ELSE IF g.players["gray"] # NoPlayer /\ g.players["gray"].playerToken = playerToken THEN
    [g |-> [g EXCEPT !.players = [@ EXCEPT !["gray"].socketId = newSocketId,
                                           !["gray"].connected = TRUE]],
     ret |-> "true"]
  ELSE [g |-> g, ret |-> "false"]

\* a MoveResult or GraduationResult; a field the method leaves out holds
\* its null value
NoResult ==
  [valid |-> FALSE, error |-> "none", boopedPieces |-> <<>>, graduatedPieces |-> <<>>,
   newCatsEarned |-> 0, winner |-> "none", winCondition |-> "none",
   requiresGraduationChoice |-> FALSE, pendingGraduationOptions |-> <<>>,
   ret |-> "none"]

Failure(error) == [NoResult EXCEPT !.error = error]

\* what a membership method returns: a color or "none" (null), or a
\* boolean written "true" / "false"
Returned(value) == [NoResult EXCEPT !.ret = value]

switchTurn(turn) == IF turn = "orange" THEN "gray" ELSE "orange"

\* placePieceError that looks at the position before the turn
placePieceError_positionFirst(g, socketId, row, col, pieceType) ==
  LET player == getPlayerBySocketId(g, socketId)
  IN  IF player = NoPlayer THEN "Player not found"
      ELSE IF g.phase # "playing" THEN "Game is not in playing phase"
      ELSE IF ~isValidPosition(row, col) THEN "Invalid position"
      ELSE IF g.board[<<row, col>>] # NoPiece THEN "Cell is occupied"
      ELSE IF player.color # g.currentTurn THEN "Not your turn"
      ELSE IF pieceType = "kitten" /\ player.kittensInPool <= 0 THEN "No kittens available"
      ELSE IF pieceType = "cat" /\ player.catsInPool <= 0 THEN "No cats available"
      ELSE "none"

\* the error of the first violated precondition of placePiece, "none" if none
placePieceError(g, socketId, row, col, pieceType) ==
  LET player == getPlayerBySocketId(g, socketId)
  IN  IF player = NoPlayer THEN "Player not found"
      ELSE IF g.phase # "playing" THEN "Game is not in playing phase"
      ELSE IF player.color # g.currentTurn THEN "Not your turn"
      ELSE IF ~isValidPosition(row, col) THEN "Invalid position"
      ELSE IF g.board[<<row, col>>] # NoPiece THEN "Cell is occupied"
      ELSE IF pieceType = "kitten" /\ player.kittensInPool <= 0 THEN "No kittens available"
      ELSE IF pieceType = "cat" /\ player.catsInPool <= 0 THEN "No cats available"
      ELSE "none"

\* the fields after the piece is put on the board and taken from the pool
placeOnBoard(g, color, row, col, pieceType) ==
  [g EXCEPT
     !.board = [@ EXCEPT ![<<row, col>>] = [color |-> color, type |-> pieceType]],
     !.players = IF pieceType = "kitten"
                   THEN [@ EXCEPT ![color].kittensInPool = @ - 1]
                   ELSE [@ EXCEPT ![color].catsInPool = @ - 1],
     !.lastMove = <<row, col>>]

\* the part of placePiece after the graduation check: suspension, or the
\* win check and the switch of turns
finishPlacement(g, color, catsEarned) ==
  LET winResult == checkWinCondition(g, color)
      h == [g EXCEPT
              !.phase = IF winResult # "none" THEN "finished" ELSE @,
              !.winner = IF winResult # "none" THEN color ELSE @,
              !.currentTurn = switchTurn(@)]
  IN  IF Len(g.pendingGraduationOptions) > 1 THEN
        [g |-> g,
         result |-> [NoResult EXCEPT
                       !.valid = TRUE,
                       !.boopedPieces = g.boopedPieces,
                       !.requiresGraduationChoice = TRUE,
                       !.pendingGraduationOptions = g.pendingGraduationOptions]]
      ELSE
        [g |-> h,
         result |-> [NoResult EXCEPT
                       !.valid = TRUE,
                       !.boopedPieces = h.boopedPieces,
                       !.graduatedPieces = h.graduatedPieces,
                       !.newCatsEarned = catsEarned,
                       !.winner = h.winner,
                       !.winCondition = winResult]]

placePiece(g, socketId, row, col, pieceType) ==
  LET g0 == [g EXCEPT !.boopedPieces = <<>>, !.graduatedPieces = <<>>]
      error == placePieceError(g0, socketId, row, col, pieceType)
      color == getPlayerBySocketId(g0, socketId).color
      g1 == placeOnBoard(g0, color, row, col, pieceType)
      g2 == executeBoop(g1, row, col, [color |-> color, type |-> pieceType])
      grad == checkAndExecuteGraduation(g2, color)
  IN  IF error # "none" THEN [g |-> g0, result |-> Failure(error)]
      ELSE finishPlacement(grad.g, color, grad.ret)

\* selectGraduationError that lets either player choose
selectGraduationError_anyChooser(g, socketId, optionIndex) ==
  LET player == getPlayerBySocketId(g, socketId)
  IN  IF player = NoPlayer THEN "Player not found"
      ELSE IF g.phase # "selecting_graduation" THEN "Not in graduation selection phase"
      ELSE IF g.pendingGraduationOptions = <<>> \/ optionIndex < 0
              \/ optionIndex >= Len(g.pendingGraduationOptions)
        THEN "Invalid graduation option"
      ELSE "none"

selectGraduationError(g, socketId, optionIndex) ==
  LET player == getPlayerBySocketId(g, socketId)
  IN  IF player = NoPlayer THEN "Player not found"
      ELSE IF g.phase # "selecting_graduation" THEN "Not in graduation selection phase"
      ELSE IF player.color # g.pendingGraduationPlayer
        THEN "Not your turn to select graduation"
      ELSE IF g.pendingGraduationOptions = <<>> \/ optionIndex < 0
              \/ optionIndex >= Len(g.pendingGraduationOptions)
        THEN "Invalid graduation option"
      ELSE "none"

selectGraduation(g, socketId, optionIndex) ==
  LET error == selectGraduationError(g, socketId, optionIndex)
      color == getPlayerBySocketId(g, socketId).color
      g0 == [g EXCEPT !.graduatedPieces = <<>>]
      grad == executeGraduationOption(g0, g.pendingGraduationOptions[optionIndex + 1],
                                      color)
      g1 == [grad.g EXCEPT !.pendingGraduationOptions = <<>>,
                           !.pendingGraduationPlayer = "none"]
      winResult == checkWinCondition(g1, color)
      g2 == IF winResult # "none"
              THEN [g1 EXCEPT !.phase = "finished", !.winner = color]
              ELSE [g1 EXCEPT !.phase = "playing", !.currentTurn = switchTurn(@)]
  IN  IF error # "none" THEN [g |-> g, result |-> Failure(error)]
      ELSE [g |-> g2,
            result |-> [NoResult EXCEPT
                          !.valid = TRUE,
                          !.graduatedPieces = g2.graduatedPieces,
                          !.newCatsEarned = grad.ret,
                          !.winner = g2.winner,
                          !.winCondition = winResult]]

----------------------------------------------------------------------------
(* The caller.  It first replays a script of calls (a recorded game), then *)
(* makes up to MaxSteps further calls with arguments drawn from small      *)
(* sets.  Every call goes through the same actions.                        *)

MaxSteps == 1

Sockets == {"s1", "s2", "s3"}
Tokens == {"t1", "t2"}

\* the connections of a room: s1, s3 and s4 come from one browser and
\* present its stored token, s2 from another
Connections == Sockets \cup {"s4"}
tokenOf(socketId) == IF socketId = "s2" THEN "t2" ELSE "t1"

\* a DisconnectedPlayer of the room: the color the token was seated as, and
\* whether GRACE_PERIOD_MS has passed since disconnectedAt; color "none"
\* stands for no entry under the token
NoRecord == [color |-> "none", expired |-> FALSE]

NoCall ==
  [op |-> "none", socketId |-> "none", playerToken |-> "none", color |-> "none",
   row |-> -1, col |-> -1, pieceType |-> "none", optionIndex |-> -1]

Add(socketId, playerToken) ==
  [NoCall EXCEPT !.op = "addPlayer", !.socketId = socketId, !.playerToken = playerToken]
Disconnect(socketId) ==
  [NoCall EXCEPT !.op = "disconnectPlayer", !.socketId = socketId]
Remove(socketId) ==
  [NoCall EXCEPT !.op = "removePlayer", !.socketId = socketId]
Rejoin(socketId, playerToken, color) ==
  [NoCall EXCEPT !.op = "rejoinPlayer", !.socketId = socketId,
                 !.playerToken = playerToken, !.color = color]
Update(playerToken, socketId) ==
  [NoCall EXCEPT !.op = "updatePlayerSocket", !.socketId = socketId,
                 !.playerToken = playerToken]
Place(socketId, row, col, pieceType) ==
  [NoCall EXCEPT !.op = "placePiece", !.socketId = socketId, !.row = row,
                 !.col = col, !.pieceType = pieceType]
Select(socketId, optionIndex) ==
  [NoCall EXCEPT !.op = "selectGraduation", !.socketId = socketId,
                 !.optionIndex = optionIndex]

\* cells the caller tries after the replay: around the pieces the recorded
\* games leave on the board, and two positions off the board
FreeCells == {<<0, 3>>, <<1, 1>>, <<3, 4>>, <<2, 3>>, <<4, 4>>, <<0, 0>>,
              <<-1, 2>>, <<3, 6>>}

FreeCalls ==
  {Add("s1", "t1"), Add("s2", "t2"), Add("s3", "none"), Add("s3", "t1")}
  \cup {Disconnect(s) : s \in Sockets}
  \cup {Remove(s) : s \in Sockets}
  \cup {Rejoin(s, t, col) : s \in {"s1", "s3"}, t \in Tokens, col \in PlayerColor}
  \cup {Update(t, s) : t \in Tokens, s \in {"s1", "s3"}}
  \cup {Place(s, cell[1], cell[2], ty) : s \in Sockets, cell \in FreeCells, ty \in PieceType}
  \cup {Select(s, i) : s \in Sockets, i \in -1 .. 2}

\* recorded games; "k" and "c" abbreviate the piece types
k == "kitten"
c == "cat"

\* both players join; orange lines up three kittens on row 0 and graduates them
GameGraduation ==
  << Add("s1", "t1"), Add("s2", "t2"),
     Place("s1", 0, 3, k), Place("s2", 5, 5, k),
     Place("s1", 0, 1, k), Place("s2", 5, 3, k),
     Place("s1", 0, 0, k), Place("s2", 5, 1, k),
     Place("s1", 0, 1, k) >>

\* orange then lines up three cats on row 0, wins, and gray's connection drops
\* and a third connection joins
GameWin ==
  GameGraduation \o
  << Place("s2", 3, 0, k), Place("s1", 0, 1, c),
     Place("s2", 0, 0, k), Place("s1", 0, 2, c),
     Place("s2", 3, 5, k), Place("s1", 0, 3, c),
     Disconnect("s2"), Add("s3", "none") >>

\* orange instead builds cat, kitten, kitten, cat on row 3: two graduation
\* options; orange's connection drops, a third connection joins and places
\* a cat that pushes the cat on 3,2 out of the row
GameChoice ==
  GameGraduation \o
  << Place("s2", 3, 0, k), Place("s1", 3, 2, c),
     Place("s2", 1, 5, k), Place("s1", 3, 3, k),
     Place("s2", 1, 0, k), Place("s1", 3, 5, c),
     Place("s2", 1, 2, k), Place("s1", 3, 4, k),
     Disconnect("s1"), Add("s3", "none"), Place("s3", 2, 1, c) >>

\* orange does not complete row 3 and gray places its eighth kitten, with no
\* three in a line; after orange's move gray asks for a ninth kitten
GameForced ==
  SubSeq(GameChoice, 1, Len(GameGraduation) + 7) \o
  << Place("s1", 0, 0, k), Place("s2", 2, 2, k),
     Place("s1", 0, 5, k), Place("s2", 4, 0, k) >>

\* a player leaves in the middle of a game
GameLeave ==
  << Add("s1", "t1"), Add("s2", "t2"),
     Place("s1", 2, 2, k), Place("s2", 2, 3, k),
     Place("s1", 1, 0, k), Remove("s1") >>

\* orange leaves after it has graduated three kittens and placed a cat
GameLeaveLate ==
  SubSeq(GameWin, 1, Len(GameGraduation) + 2) \o << Remove("s1") >>

\* orange lines up four kittens on column 5 while its third cat completes
\* cats on 1,1 1,2 1,3 (gray's kitten on 1,0 keeps them from being pushed),
\* and then chooses the lower three kittens
GameHiddenWin ==
  GameGraduation \o
  << Place("s2", 5, 0, k), Place("s1", 3, 5, k),
     Place("s2", 4, 0, k), Place("s1", 1, 5, k),
     Place("s2", 5, 0, k), Place("s1", 0, 5, k),
     Place("s2", 4, 0, k), Place("s1", 1, 1, c),
     Place("s2", 1, 0, k), Place("s1", 1, 3, k),
     Place("s2", 5, 0, k), Place("s1", 1, 2, c),
     Place("s2", 4, 0, k), Place("s1", 1, 3, c),
     Select("s1", 1) >>

\* both colors graduate three kittens; then the cats push one another until
\* orange's cat on 2,0 pushes gray's cat from 3,1 to 4,2, between gray's
\* cats on 3,3 and 5,1
GameOpponentLine ==
  << Add("s1", "t1"), Add("s2", "t2"),
     Place("s1", 2, 4, k), Place("s2", 2, 2, k),
     Place("s1", 1, 1, k), Place("s2", 4, 2, k),
     Place("s1", 1, 3, k), Place("s2", 2, 4, k),
     Place("s1", 2, 0, k), Place("s2", 4, 3, c),
     Place("s1", 4, 4, c), Place("s2", 5, 2, c),
     Place("s1", 5, 3, c), Place("s2", 3, 1, c),
     Place("s1", 2, 0, c) >>

Games ==
  {GameWin, GameChoice, GameForced, GameLeave, GameLeaveLate, GameHiddenWin,
   GameOpponentLine}

\* the caller replays a recorded game up to any point
Scripts == UNION {{SubSeq(game, 1, n) : n \in 0 .. Len(game)} : game \in Games}

\* the calls the caller may make now
Calls(op) ==
  IF script # <<>> THEN {x \in {Head(script)} : x.op = op}
  ELSE IF steps < MaxSteps THEN {x \in FreeCalls : x.op = op}
  ELSE {}

\* the engine takes the fields h, the call x returned r
Performs(x, h, r) ==
  /\ board' = h.board
  /\ players' = h.players
  /\ currentTurn' = h.currentTurn
  /\ phase' = h.phase
  /\ winner' = h.winner
  /\ lastMove' = h.lastMove
  /\ boopedPieces' = h.boopedPieces
  /\ graduatedPieces' = h.graduatedPieces
  /\ pendingGraduationOptions' = h.pendingGraduationOptions
  /\ pendingGraduationPlayer' = h.pendingGraduationPlayer
  /\ call' = x
  /\ result' = r
  /\ script' = IF script # <<>> THEN Tail(script) ELSE script
  /\ steps' = IF script # <<>> THEN steps ELSE steps + 1
  /\ UNCHANGED roomVars

Does(x, h, r) ==
  Performs(x, h, r) /\ UNCHANGED <<transpositionTable, moveCount>>

Init ==
  /\ board = NewGame.board
  /\ players = NewGame.players
  /\ currentTurn = NewGame.currentTurn
  /\ phase = NewGame.phase
  /\ winner = NewGame.winner
  /\ lastMove = NewGame.lastMove
  /\ boopedPieces = NewGame.boopedPieces
  /\ graduatedPieces = NewGame.graduatedPieces
  /\ pendingGraduationOptions = NewGame.pendingGraduationOptions
  /\ pendingGraduationPlayer = NewGame.pendingGraduationPlayer
  /\ call = NoCall
  /\ result = NoResult
  /\ script \in Scripts
  /\ steps = 0
  /\ playerRooms = {}
  /\ playerTokens = [s \in Connections |-> "none"]
  /\ disconnectedPlayers = [t \in Tokens |-> NoRecord]
  /\ closed = {}
  /\ transpositionTable = <<>>
  /\ moveCount = 0

AddPlayer ==
  \E x \in Calls("addPlayer") :
    LET r == addPlayer(This, x.socketId, x.playerToken)
    IN  Does(x, r.g, Returned(r.ret))

DisconnectPlayer ==
  \E x \in Calls("disconnectPlayer") :
    LET r == disconnectPlayer(This, x.socketId)
    IN  Does(x, r.g, Returned(r.ret))

RemovePlayer ==
  \E x \in Calls("removePlayer") :
    LET r == removePlayer(This, x.socketId)
    IN  Does(x, r.g, Returned(r.ret))

RejoinPlayer ==
  \E x \in Calls("rejoinPlayer") :
    LET r == rejoinPlayer(This, x.socketId, x.playerToken, x.color)
    IN  Does(x, r.g, Returned(r.ret))

UpdatePlayerSocket ==
  \E x \in Calls("updatePlayerSocket") :
    LET r == updatePlayerSocket(This, x.playerToken, x.socketId)
    IN  Does(x, r.g, Returned(r.ret))

PlacePiece ==
  \E x \in Calls("placePiece") :
    LET r == placePiece(This, x.socketId, x.row, x.col, x.pieceType)
    IN  Does(x, r.g, r.result)

SelectGraduation ==
  \E x \in Calls("selectGraduation") :
    LET r == selectGraduation(This, x.socketId, x.optionIndex)
    IN  Does(x, r.g, r.result)

Next ==
  \/ AddPlayer
  \/ DisconnectPlayer
  \/ RemovePlayer
  \/ RejoinPlayer
  \/ UpdatePlayerSocket
  \/ PlacePiece
  \/ SelectGraduation

Spec == Init /\ [][Next]_vars

----------------------------------------------------------------------------
(* Notions the claims are stated in                                        *)

piecesOnBoard(b, color, type) ==
  Cardinality({cell \in Cells : b[cell] = [color |-> color, type |-> type]})

\* three cats of one color on three consecutive cells of a line, or eight
\* cats of that color on the board
ThreeCatsInRow(b, color) ==
  \E cell \in Cells : \E d \in {<<0, 1>>, <<1, 0>>, <<1, 1>>, <<1, -1>>} :
    \A i \in 0 .. 2 :
      /\ <<cell[1] + i * d[1], cell[2] + i * d[2]>> \in Cells
      /\ b[<<cell[1] + i * d[1], cell[2] + i * d[2]>>] =
           [color |-> color, type |-> "cat"]

WinOnBoard(b, color) ==
  ThreeCatsInRow(b, color) \/ piecesOnBoard(b, color, "cat") >= 8

\* the colors the identity socketId is seated as
seatsOf(socketId) ==
  {col \in PlayerColor : players[col] # NoPlayer /\ players[col].socketId = socketId}

\* the step is a call of the method op
IsCall(op) == call'.op = op

\* the counts of a player record
counts(p) == <<p.kittensInPool, p.catsInPool, p.kittensRetired>>

----------------------------------------------------------------------------
(* C1 - Conservation: in every reachable state and for each color that has *)
(* a player record, kittensInPool + kittens on the board + kittensRetired  *)
(* = 8, and catsInPool + cats on the board <= 8.                           *)
C1_Conservation ==
  \A col \in PlayerColor :
    players[col] # NoPlayer =>
      /\ players[col].kittensInPool + piecesOnBoard(board, col, "kitten")
           + players[col].kittensRetired = 8
      /\ players[col].catsInPool + piecesOnBoard(board, col, "cat") <= 8

(* C2 - Atomic failure: a placePiece or selectGraduation that returns      *)
(* valid = false leaves every field of the engine as it was before the     *)
(* call, the two effect logs and the pending graduation data included.     *)
C2_AtomicFailure ==
  [][((IsCall("placePiece") \/ IsCall("selectGraduation")) /\ ~result'.valid)
       => UNCHANGED engineVars]_vars

(* C3 - Turn integrity: in every reachable state, placePiece called with   *)
(* the identity of the player whose color is not currentTurn returns       *)
(* valid = false with the error 'Not your turn' and leaves the state       *)
(* unchanged.                                                              *)
C3_TurnIntegrity ==
  [][(IsCall("placePiece") /\ otherColor(currentTurn) \in seatsOf(call'.socketId))
       => (/\ ~result'.valid
           /\ result'.error = "Not your turn"
           /\ UNCHANGED engineVars)]_vars

\* the fields right after the boop pass of the placement the step makes
AfterPlacement ==
  placeOnBoard(This, currentTurn, call'.row, call'.col, call'.pieceType)
AfterBoop ==
  executeBoop([AfterPlacement EXCEPT !.boopedPieces = <<>>, !.graduatedPieces = <<>>],
              call'.row, call'.col,
              [color |-> currentTurn, type |-> call'.pieceType])

\* the placed piece is a cat and stands, after the boop pass, in a line of
\* three cats of its color
CompletesCatLine ==
  /\ call'.pieceType = "cat"
  /\ \E cell \in Cells : \E d \in {<<0, 1>>, <<1, 0>>, <<1, 1>>, <<1, -1>>} :
       /\ <<call'.row, call'.col>> \in
            {<<cell[1] + i * d[1], cell[2] + i * d[2]>> : i \in 0 .. 2}
       /\ \A i \in 0 .. 2 :
            /\ <<cell[1] + i * d[1], cell[2] + i * d[2]>> \in Cells
            /\ AfterBoop.board[<<cell[1] + i * d[1], cell[2] + i * d[2]>>] =
                 [color |-> currentTurn, type |-> "cat"]

(* C4 - Win precedence: a valid placePiece by color c that completes three *)
(* of c's cats in a row ends with phase = finished, winner = c and         *)
(* currentTurn still c.                                                    *)
C4_WinPrecedence ==
  [][(IsCall("placePiece") /\ result'.valid /\ CompletesCatLine)
       => (/\ phase' = "finished"
           /\ winner' = currentTurn
           /\ currentTurn' = currentTurn)]_vars

(* C5 - Win condition: after a valid placePiece by color c that does not   *)
(* suspend into graduation selection, winner = c and phase = finished if   *)
(* and only if c has, on the resulting board, three cats in a row or eight *)
(* cats; otherwise winner is null and phase is playing.                    *)
C5_WinCondition ==
  [][(IsCall("placePiece") /\ result'.valid /\ phase' # "selecting_graduation")
       => IF WinOnBoard(board', currentTurn)
            THEN winner' = currentTurn /\ phase' = "finished"
            ELSE winner' = "none" /\ phase' = "playing"]_vars

(* C6 - Finished is terminal: once phase = finished no operation changes   *)
(* the phase, the winner, the board or a pool count.                       *)
C6_FinishedTerminal ==
  [][phase = "finished"
       => (/\ phase' = "finished"
           /\ winner' = winner
           /\ board' = board
           /\ \A col \in PlayerColor :
                (players[col] # NoPlayer /\ players'[col] # NoPlayer)
                  => counts(players'[col]) = counts(players[col]))]_vars

----------------------------------------------------------------------------
\* Graduation after a placement

\* the sets of three cells adjacent in a row, a column or a diagonal that
\* hold pieces of the color only, one of them a kitten
GraduationLines(b, color) ==
  {line \in {{<<cell[1] + i * d[1], cell[2] + i * d[2]>> : i \in 0 .. 2} :
               cell \in Cells, d \in {<<0, 1>>, <<1, 0>>, <<1, 1>>, <<1, -1>>}} :
     /\ line \subseteq Cells
     /\ \A cell \in line : b[cell] # NoPiece /\ b[cell].color = color
     /\ \E cell \in line : b[cell].type = "kitten"}

cellsOf(option) == {option[i] : i \in 1 .. Len(option)}

\* C7: when a valid placement leaves the mover, after its boops, with two or
\* more distinct graduation lines, none is applied: the board and the pools are
\* those after the boop pass, the phase is selecting_graduation, the pending
\* options are exactly those lines, each once, the pending player is the mover,
\* the turn does not change and no win is decided.
C7_MultiOptionSuspension ==
  [][(/\ IsCall("placePiece") /\ result'.valid
      /\ Cardinality(GraduationLines(AfterBoop.board, currentTurn)) >= 2)
       => /\ board' = AfterBoop.board
          /\ players' = AfterBoop.players
          /\ graduatedPieces' = <<>>
          /\ phase' = "selecting_graduation"
          /\ {cellsOf(pendingGraduationOptions'[i]) :
                i \in 1 .. Len(pendingGraduationOptions')}
               = GraduationLines(AfterBoop.board, currentTurn)
          /\ Len(pendingGraduationOptions')
               = Cardinality(GraduationLines(AfterBoop.board, currentTurn))
          /\ \A i \in 1 .. Len(pendingGraduationOptions') :
               /\ Len(pendingGraduationOptions'[i]) = 3
               /\ \A cell \in cellsOf(pendingGraduationOptions'[i]) :
                    board'[cell] # NoPiece
          /\ pendingGraduationPlayer' = currentTurn
          /\ currentTurn' = currentTurn
          /\ winner' = winner
          /\ result'.winner = "none"
          /\ result'.requiresGraduationChoice]_vars

C7_Suspended ==
  /\ call.op = "placePiece" /\ result.valid
  /\ phase = "selecting_graduation"
  /\ Len(pendingGraduationOptions) >= 2
  /\ Cardinality(GraduationLines(board, pendingGraduationPlayer)) >= 2

\* C8: a valid selectGraduation(i) empties exactly the three cells of pending
\* option i, retires each kitten among them and credits one cat per cell to
\* the chooser, leaves the chooser's kittens in pool and the other player
\* alone, clears the pending options and player, and then finishes the game
\* for the chooser if the board holds a win for it, and otherwise returns to
\* playing with the turn passed to the other color.
C8_SelectGraduation ==
  [][(IsCall("selectGraduation") /\ result'.valid)
       => LET chooser == pendingGraduationPlayer
              option == cellsOf(pendingGraduationOptions[call'.optionIndex + 1])
              kittens == {cell \in option : board[cell].type = "kitten"}
          IN  /\ call'.optionIndex + 1 \in 1 .. Len(pendingGraduationOptions)
              /\ Cardinality(option) = 3
              /\ \A cell \in Cells :
                   board'[cell] = IF cell \in option THEN NoPiece ELSE board[cell]
              /\ players'[chooser].kittensRetired
                   = players[chooser].kittensRetired + Cardinality(kittens)
              /\ players'[chooser].catsInPool = players[chooser].catsInPool + 3
              /\ players'[chooser].kittensInPool = players[chooser].kittensInPool
              /\ players'[otherColor(chooser)] = players[otherColor(chooser)]
              /\ pendingGraduationOptions' = <<>>
              /\ pendingGraduationPlayer' = "none"
              /\ IF WinOnBoard(board', chooser)
                   THEN /\ phase' = "finished" /\ winner' = chooser
                        /\ result'.winner = chooser
                        /\ currentTurn' = currentTurn
                   ELSE /\ phase' = "playing" /\ winner' = winner
                        /\ result'.winner = "none"
                        /\ currentTurn' = otherColor(currentTurn)]_vars

C8_Selected ==
  /\ call.op = "selectGraduation" /\ result.valid
  /\ Len(result.graduatedPieces) = 3
  /\ \E i \in 1 .. 3 : \E color \in PlayerColor :
       players[color] # NoPlayer /\ players[color].catsInPool >= 3

----------------------------------------------------------------------------
\* The boop pass of a placement

neighbor(cell, d) == <<cell[1] + d[1], cell[2] + d[2]>>

\* the effects of the boop pass that sent a piece of the color and type off
\* the board
returned(b, effects, color, type) ==
  {j \in 1 .. Len(effects) :
     /\ effects[j].to = NoCell
     /\ b[effects[j].from] = [color |-> color, type |-> type]}

\* C9: in a valid placement the target cell was empty; a neighbor whose
\* landing cell is on the board and occupied stays where it is and the
\* occupant of the landing cell is not overwritten; a piece that is moved
\* lands on a cell that was empty; the boop pass removes from the board only
\* the pieces it returns off the board, and after it only graduated cells
\* are emptied.
C9_BoopBlocking ==
  [][(IsCall("placePiece") /\ result'.valid)
       => LET placed == <<call'.row, call'.col>>
              b0 == AfterPlacement.board
              b1 == AfterBoop.board
              effects == result'.boopedPieces
          IN  /\ board[placed] = NoPiece
              /\ effects = AfterBoop.boopedPieces
              /\ \A i \in 1 .. Len(DIRECTIONS) :
                   LET adj == neighbor(placed, DIRECTIONS[i])
                       dest == neighbor(adj, DIRECTIONS[i])
                   IN  (/\ adj \in Cells /\ dest \in Cells
                        /\ b0[adj] # NoPiece /\ b0[dest] # NoPiece)
                         => b1[adj] = b0[adj] /\ b1[dest] = b0[dest]
              /\ \A j \in 1 .. Len(effects) :
                   effects[j].to # NoCell
                     => /\ b0[effects[j].to] = NoPiece
                        /\ b1[effects[j].to] = b0[effects[j].from]
              /\ \A color \in PlayerColor : \A type \in PieceType :
                   piecesOnBoard(b1, color, type)
                     = piecesOnBoard(b0, color, type)
                         - Cardinality(returned(b0, effects, color, type))
              /\ \A cell \in Cells :
                   \/ board'[cell] = b1[cell]
                   \/ /\ board'[cell] = NoPiece
                      /\ cell \in cellsOf(graduatedPieces')]_vars

\* a placement next to a piece it could push, whose landing cell is taken
C9_Blocked ==
  /\ call.op = "placePiece" /\ result.valid
  /\ \E i \in 1 .. Len(DIRECTIONS) :
       LET adj == neighbor(lastMove, DIRECTIONS[i])
           dest == neighbor(adj, DIRECTIONS[i])
       IN  /\ adj \in Cells /\ dest \in Cells
           /\ board[adj] # NoPiece /\ board[dest] # NoPiece
           /\ ~(call.pieceType = "kitten" /\ board[adj].type = "cat")

\* C10: a valid placement of a kitten moves no cat: every cat stands after
\* the boop pass where it stood before, no boop effect starts from a cell
\* that held a cat, the boop pass changes no player's cats in pool, and the
\* other player's cats are where they were when the call returns.
C10_KittenCannotBoopCat ==
  [][(IsCall("placePiece") /\ result'.valid /\ call'.pieceType = "kitten")
       => LET b0 == AfterPlacement.board
              b1 == AfterBoop.board
              effects == result'.boopedPieces
          IN  /\ effects = AfterBoop.boopedPieces
              /\ \A cell \in Cells :
                   b0[cell] # NoPiece /\ b0[cell].type = "cat"
                     => b1[cell] = b0[cell]
              /\ \A j \in 1 .. Len(effects) :
                   b0[effects[j].from].type # "cat"
              /\ \A color \in PlayerColor :
                   AfterPlacement.players[color] # NoPlayer
                     => AfterBoop.players[color].catsInPool
                          = AfterPlacement.players[color].catsInPool
              /\ \A cell \in Cells :
                   b0[cell] = [color |-> otherColor(currentTurn), type |-> "cat"]
                     => board'[cell] = b0[cell]
              /\ players'[otherColor(currentTurn)] # NoPlayer
                   => players'[otherColor(currentTurn)].catsInPool
                        = players[otherColor(currentTurn)].catsInPool]_vars

\* a kitten placed next to a cat whose landing cell is free or off the board
C10_KittenBesideCat ==
  /\ call.op = "placePiece" /\ result.valid /\ call.pieceType = "kitten"
  /\ \E i \in 1 .. Len(DIRECTIONS) :
       LET adj == neighbor(lastMove, DIRECTIONS[i])
           dest == neighbor(adj, DIRECTIONS[i])
       IN  /\ adj \in Cells
           /\ board[adj] # NoPiece /\ board[adj].type = "cat"
           /\ (dest \in Cells => board[dest] = NoPiece)

----------------------------------------------------------------------------
\* Off-board return

\* the directions in which the placement pushes its neighbor past the edge
pushedOff(b, placed, placedType) ==
  {i \in 1 .. Len(DIRECTIONS) :
     LET adj == neighbor(placed, DIRECTIONS[i])
     IN  /\ adj \in Cells
         /\ b[adj] # NoPiece
         /\ ~(placedType = "kitten" /\ b[adj].type = "cat")
         /\ neighbor(adj, DIRECTIONS[i]) \notin Cells}

\* C11: in a valid placement every neighbor that is pushed and whose landing
\* cell is out of bounds leaves the board and is recorded as a boop effect
\* with to = null, and for each color and kind the pool counter grows by the
\* number of pieces of that color and kind returned in this way (one per
\* piece) and by nothing else during the boop pass.
C11_OffBoardReturn ==
  [][(IsCall("placePiece") /\ result'.valid)
       => LET placed == <<call'.row, call'.col>>
              b0 == AfterPlacement.board
              effects == result'.boopedPieces
          IN  /\ effects = AfterBoop.boopedPieces
              /\ \A i \in pushedOff(b0, placed, call'.pieceType) :
                   LET adj == neighbor(placed, DIRECTIONS[i])
                   IN  /\ AfterBoop.board[adj] = NoPiece
                       /\ board'[adj] = NoPiece
                       /\ \E j \in 1 .. Len(effects) :
                            effects[j] = [from |-> adj, to |-> NoCell]
              /\ \A color \in PlayerColor :
                   /\ AfterBoop.players[color].kittensInPool
                        = AfterPlacement.players[color].kittensInPool
                            + Cardinality(returned(b0, effects, color, "kitten"))
                   /\ AfterBoop.players[color].catsInPool
                        = AfterPlacement.players[color].catsInPool
                            + Cardinality(returned(b0, effects, color, "cat"))
              /\ players'[otherColor(currentTurn)].kittensInPool
                   = players[otherColor(currentTurn)].kittensInPool
                       + Cardinality(returned(b0, effects,
                                              otherColor(currentTurn), "kitten"))]_vars

----------------------------------------------------------------------------
\* findGraduationOptions as a function of the board

MaxLine == 5

\* the cells origin, origin + d, ... of a run of n cells
runCells(origin, d, n) ==
  {<<origin[1] + i * d[1], origin[2] + i * d[2]>> : i \in 0 .. n - 1}

\* three kittens that may stand on the board besides the run
Extras ==
  {{}, {<<1, 2>>, <<2, 2>>, <<3, 2>>}, {<<2, 1>>, <<2, 2>>, <<2, 3>>}}

\* the board with a run of n pieces of one color, of the types given by
\* pattern, and the extra kittens of that color on the cells the run leaves
lineBoard(color, origin, d, n, pattern, extra) ==
  [cell \in Cells |->
     IF \E i \in 0 .. n - 1 : cell = <<origin[1] + i * d[1], origin[2] + i * d[2]>>
       THEN [color |-> color,
             type |-> pattern[1 + CHOOSE i \in 0 .. n - 1 :
                          cell = <<origin[1] + i * d[1], origin[2] + i * d[2]>>]]
     ELSE IF cell \in extra THEN [color |-> color, type |-> "kitten"]
     ELSE NoPiece]

\* the counts of a player with the given pieces on the board, its cats in
\* pool all placed
seated(b, color, socketId, playerToken) ==
  [color |-> color,
   kittensInPool |-> STARTING_KITTENS - countPiecesOnBoard(b, color),
   catsInPool |-> 0,
   kittensRetired |-> piecesOnBoard(b, color, "cat"),
   socketId |-> socketId, connected |-> TRUE, playerToken |-> playerToken]

InitOptions ==
  /\ \E color \in PlayerColor, origin \in Cells, n \in 1 .. MaxLine,
        i \in 1 .. Len(LINE_DIRECTIONS), extra \in Extras :
       /\ runCells(origin, LINE_DIRECTIONS[i], n) \subseteq Cells
       /\ \E pattern \in [1 .. n -> PieceType] :
            /\ board = lineBoard(color, origin, LINE_DIRECTIONS[i], n, pattern, extra)
            /\ countPiecesOnBoard(board, color) <= STARTING_KITTENS
  /\ players = [orange |-> seated(board, "orange", "s1", "t1"),
                gray |-> seated(board, "gray", "s2", "t2")]
  /\ currentTurn = NewGame.currentTurn
  /\ phase = "playing"
  /\ winner = "none"
  /\ lastMove = NoCell
  /\ boopedPieces = <<>>
  /\ graduatedPieces = <<>>
  /\ pendingGraduationOptions = <<>>
  /\ pendingGraduationPlayer = "none"
  /\ call = NoCall
  /\ result = NoResult
  /\ script = <<>>
  /\ steps = 0
  /\ playerRooms = {}
  /\ playerTokens = [s \in Connections |-> "none"]
  /\ disconnectedPlayers = [t \in Tokens |-> NoRecord]
  /\ closed = {}
  /\ transpositionTable = <<>>
  /\ moveCount = 0

\* one evaluation of this.findGraduationOptions(playerColor)
FindGraduationOptions ==
  /\ call = NoCall
  /\ \E playerColor \in PlayerColor :
       /\ call' = [NoCall EXCEPT !.op = "findGraduationOptions",
                                 !.color = playerColor]
       /\ result' = [NoResult EXCEPT !.pendingGraduationOptions =
                       findGraduationOptions(board, playerColor)]
  /\ UNCHANGED <<engineVars, roomVars, script, steps, transpositionTable,
                  moveCount>>

NextOptions == FindGraduationOptions

SpecOptions == InitOptions /\ [][NextOptions]_vars

\* the runs of exactly four pieces of the color in a line, one of them a
\* kitten, as sequences of cells in the direction of the line
RunsOfFour(b, color) ==
  {run \in {[i \in 1 .. 4 |-> <<origin[1] + (i - 1) * d[1],
                                origin[2] + (i - 1) * d[2]>>] :
              origin \in Cells, d \in {<<0, 1>>, <<1, 0>>, <<1, 1>>, <<1, -1>>}} :
     /\ \A i \in 1 .. 4 : run[i] \in Cells /\ b[run[i]].color = color
     /\ \E i \in 1 .. 4 : b[run[i]].type = "kitten"
     /\ LET before == <<2 * run[1][1] - run[2][1], 2 * run[1][2] - run[2][2]>>
            after == <<2 * run[4][1] - run[3][1], 2 * run[4][2] - run[3][2]>>
        IN  /\ before \in Cells => b[before].color # color
            /\ after \in Cells => b[after].color # color}

\* the options that lie on the cells of the run
optionsOn(options, run) ==
  {cellsOf(options[i]) : i \in {j \in 1 .. Len(options) :
                                  cellsOf(options[j]) \subseteq cellsOf(run)}}

\* C12 as stated: a run of exactly four pieces with a kitten gives exactly
\* the two options [0,1,2] and [1,2,3], and no two options have the same
\* three cells.
C12_TwoOptionsPerRunOfFour ==
  call.op = "findGraduationOptions"
    => LET options == result.pendingGraduationOptions
       IN  /\ \A run \in RunsOfFour(board, call.color) :
                optionsOn(options, run)
                  = {{run[1], run[2], run[3]}, {run[2], run[3], run[4]}}
           /\ \A i, j \in 1 .. Len(options) :
                cellsOf(options[i]) = cellsOf(options[j]) => i = j

\* C12, amended: the options are, each once, the sets of three cells in a
\* line that hold the color's pieces with a kitten among them; so a run of
\* exactly four pieces with a kitten gives those of its windows [0,1,2] and
\* [1,2,3] that hold a kitten: both when a kitten stands on one of the two
\* middle cells or on both ends, and one alone when the only kitten stands on
\* one end (the other window is three cats).
C12_GraduationDedup ==
  call.op = "findGraduationOptions"
    => LET options == result.pendingGraduationOptions
       IN  /\ {cellsOf(options[i]) : i \in 1 .. Len(options)}
                = GraduationLines(board, call.color)
           /\ \A i, j \in 1 .. Len(options) :
                cellsOf(options[i]) = cellsOf(options[j]) => i = j
           /\ \A i \in 1 .. Len(options) : Len(options[i]) = 3
           /\ \A run \in RunsOfFour(board, call.color) :
                /\ optionsOn(options, run)
                     = {w \in {{run[1], run[2], run[3]}, {run[2], run[3], run[4]}} :
                          \E cell \in w : board[cell].type = "kitten"}
                /\ Cardinality(optionsOn(options, run)) =
                     IF \/ board[run[2]].type = "kitten"
                        \/ board[run[3]].type = "kitten"
                        \/ (board[run[1]].type = "kitten"
                            /\ board[run[4]].type = "kitten")
                       THEN 2 ELSE 1

\* the options of a board with a run of four with a kitten in the middle and
\* a second line across it
C12_RunOfFour ==
  /\ call.op = "findGraduationOptions"
  /\ \E run \in RunsOfFour(board, call.color) :
       /\ board[run[2]].type = "kitten"
       /\ Cardinality(optionsOn(result.pendingGraduationOptions, run)) = 2
  /\ Len(result.pendingGraduationOptions) >= 3

----------------------------------------------------------------------------
\* Graduation applied within the placement

\* C13: when a valid placement leaves the mover, after its boops, with exactly
\* one graduation line, the call itself empties the three cells of that line
\* and no other, retires each kitten of the line and credits one cat per
\* cell to the mover, leaves the other player as the boop pass left it, does
\* not enter selecting_graduation and stores no pending options or player.
C13_SingleOptionAutoApply ==
  [][(/\ IsCall("placePiece") /\ result'.valid
      /\ Cardinality(GraduationLines(AfterBoop.board, currentTurn)) = 1)
       => LET line == CHOOSE l \in GraduationLines(AfterBoop.board, currentTurn) : TRUE
              kittens == {cell \in line : AfterBoop.board[cell].type = "kitten"}
              before == AfterBoop.players
          IN  /\ \A cell \in Cells :
                   board'[cell] = IF cell \in line THEN NoPiece
                                  ELSE AfterBoop.board[cell]
              /\ cellsOf(graduatedPieces') = line
              /\ players'[currentTurn].kittensRetired
                   = before[currentTurn].kittensRetired + Cardinality(kittens)
              /\ players'[currentTurn].catsInPool
                   = before[currentTurn].catsInPool + 3
              /\ players'[currentTurn].kittensInPool
                   = before[currentTurn].kittensInPool
              /\ players'[otherColor(currentTurn)] = before[otherColor(currentTurn)]
              /\ phase' # "selecting_graduation"
              /\ pendingGraduationOptions' = <<>>
              /\ pendingGraduationPlayer' = "none"
              /\ ~result'.requiresGraduationChoice
              /\ result'.newCatsEarned = Cardinality(kittens)]_vars

\* C14: when a valid placement leaves the mover, after its boops, with no
\* graduation line, then if the mover has eight or more pieces on the board
\* and kittensRetired + catsInPool below 8, exactly one of its kittens is
\* graduated, the first in row-major order (its cell emptied, kittensRetired
\* and catsInPool one more each); in every other case with no line the
\* graduation step removes no piece and changes no count.
C14_ForcedGraduation ==
  [][(/\ IsCall("placePiece") /\ result'.valid
      /\ GraduationLines(AfterBoop.board, currentTurn) = {})
       => LET b1 == AfterBoop.board
              before == AfterBoop.players
              kittens == {cell \in Cells :
                            b1[cell] = [color |-> currentTurn, type |-> "kitten"]}
          IN  /\ players'[otherColor(currentTurn)] = before[otherColor(currentTurn)]
              /\ IF /\ piecesOnBoard(b1, currentTurn, "kitten")
                         + piecesOnBoard(b1, currentTurn, "cat") >= 8
                    /\ before[currentTurn].kittensRetired
                         + before[currentTurn].catsInPool < 8
                   THEN \E first \in kittens :
                          /\ \A other \in kittens :
                               \/ first[1] < other[1]
                               \/ first[1] = other[1] /\ first[2] <= other[2]
                          /\ \A cell \in Cells :
                               board'[cell] = IF cell = first THEN NoPiece
                                              ELSE b1[cell]
                          /\ graduatedPieces' = <<first>>
                          /\ players'[currentTurn] =
                               [before[currentTurn] EXCEPT
                                  !.kittensRetired = @ + 1, !.catsInPool = @ + 1]
                   ELSE /\ board' = b1
                        /\ graduatedPieces' = <<>>
                        /\ players'[currentTurn] = before[currentTurn]]_vars

\* a placement has graduated a single kitten
C14_Forced ==
  /\ call.op = "placePiece" /\ result.valid
  /\ Len(graduatedPieces) = 1
  /\ \E cell \in Cells :
       /\ board[cell] = [color |-> otherColor(currentTurn), type |-> "kitten"]
       /\ \/ graduatedPieces[1][1] < cell[1]
          \/ graduatedPieces[1][1] = cell[1] /\ graduatedPieces[1][2] < cell[2]

----------------------------------------------------------------------------
\* Turn and preconditions

\* C15: currentTurn changes only in a valid placePiece that neither suspends
\* into graduation selection nor wins, or in a valid selectGraduation that
\* does not win, and then it passes to the other color; addPlayer,
\* disconnectPlayer, removePlayer, rejoinPlayer and updatePlayerSocket never
\* change it.
C15_TurnAlternation ==
  [][currentTurn' # currentTurn
       => /\ currentTurn' = otherColor(currentTurn)
          /\ result'.valid
          /\ result'.winner = "none"
          /\ \/ IsCall("placePiece") /\ ~result'.requiresGraduationChoice
             \/ IsCall("selectGraduation")]_vars

\* the player the identity socketId acts as: the orange seat if it holds
\* it, else the gray one
actorOf(socketId) ==
  IF "orange" \in seatsOf(socketId) THEN players["orange"] ELSE players["gray"]

\* the preconditions of placePiece, in the order of the specification, that
\* the call x violates in the current state
violatedByPlace(x) ==
  LET actor == actorOf(x.socketId)
      cell == <<x.row, x.col>>
  IN  {i \in 1 .. 6 :
         \/ i = 1 /\ seatsOf(x.socketId) = {}
         \/ i = 2 /\ phase # "playing"
         \/ i = 3 /\ actor.color # currentTurn
         \/ i = 4 /\ cell \notin Cells
         \/ i = 5 /\ cell \in Cells /\ board[cell] # NoPiece
         \/ i = 6 /\ (IF x.pieceType = "kitten" THEN actor.kittensInPool
                      ELSE actor.catsInPool) <= 0}

placeErrors(pieceType) ==
  << "Player not found", "Game is not in playing phase", "Not your turn",
     "Invalid position", "Cell is occupied",
     IF pieceType = "kitten" THEN "No kittens available" ELSE "No cats available" >>

\* C16: placePiece reports the error of the first precondition violated in
\* the order known player, phase playing, actor's turn, position in bounds,
\* cell empty, pool of the chosen kind above 0, and returns valid = true when
\* none is violated.
C16_PlacePreconditionOrder ==
  [][IsCall("placePiece")
       => LET violated == violatedByPlace(call')
          IN  IF violated = {}
                THEN result'.valid /\ result'.error = "none"
                ELSE /\ ~result'.valid
                     /\ \E first \in violated :
                          /\ \A i \in violated : first <= i
                          /\ result'.error = placeErrors(call'.pieceType)[first]]_vars

\* a rejected placement that was out of turn and also off the board
C16_SeveralViolated ==
  /\ call.op = "placePiece" /\ ~result.valid
  /\ result.error = "Not your turn"
  /\ <<call.row, call.col>> \notin Cells

\* C17: selectGraduation by a seated identity returns valid = true exactly
\* when the phase is selecting_graduation, the actor's color is the pending
\* player and the index is one of the stored options; in the phases waiting,
\* playing and finished it is rejected as not in the selection phase, in the
\* selection phase a call by the other color is rejected as not its turn to
\* select, and a call by the chooser with an index out of range as an
\* invalid option.
C17_SelectPreconditions ==
  [][(IsCall("selectGraduation") /\ seatsOf(call'.socketId) # {})
       => LET actor == actorOf(call'.socketId)
              inRange == /\ 0 <= call'.optionIndex
                         /\ call'.optionIndex < Len(pendingGraduationOptions)
          IN  /\ result'.valid
                   <=> /\ phase = "selecting_graduation"
                       /\ actor.color = pendingGraduationPlayer
                       /\ inRange
              /\ phase \in {"waiting", "playing", "finished"}
                   => result'.error = "Not in graduation selection phase"
              /\ (phase = "selecting_graduation"
                  /\ actor.color # pendingGraduationPlayer)
                   => result'.error = "Not your turn to select graduation"
              /\ (/\ phase = "selecting_graduation"
                  /\ actor.color = pendingGraduationPlayer /\ ~inRange)
                   => result'.error = "Invalid graduation option"]_vars

\* the other color has asked to choose, with an index out of range
C17_OtherColorRejected ==
  /\ call.op = "selectGraduation" /\ ~result.valid
  /\ result.error = "Not your turn to select graduation"
  /\ phase = "selecting_graduation"
  /\ call.optionIndex = -1

----------------------------------------------------------------------------
\* C18: in every reachable state and for each color that has a player
\* record, catsInPool plus the cats of that color on the board equals
\* kittensRetired: cats come from graduated kittens only.
C18_CatOrigin ==
  \A color \in PlayerColor :
    players[color] # NoPlayer
      => players[color].catsInPool + piecesOnBoard(board, color, "cat")
           = players[color].kittensRetired

----------------------------------------------------------------------------
\* Reconnection

\* C19: a successful rejoinPlayer or updatePlayerSocket changes, in the
\* players, only the connection identity and the connected flag of one slot,
\* whose token is the one presented; the board, the counts, currentTurn,
\* winner, lastMove, the logs and the pending graduation data are unchanged,
\* and the phase is unchanged, except that waiting becomes playing in
\* rejoinPlayer when both colors are connected after it.
C19_ReconnectionKeepsGame ==
  [][((IsCall("rejoinPlayer") \/ IsCall("updatePlayerSocket"))
      /\ result'.ret = "true")
       => /\ \E color \in PlayerColor :
               /\ players[color] # NoPlayer
               /\ players[color].playerToken = call'.playerToken
               /\ IsCall("rejoinPlayer") => color = call'.color
               /\ players' = [players EXCEPT ![color].socketId = call'.socketId,
                                             ![color].connected = TRUE]
          /\ UNCHANGED <<board, currentTurn, winner, lastMove, boopedPieces,
                         graduatedPieces, pendingGraduationOptions,
                         pendingGraduationPlayer>>
          /\ phase' = IF /\ phase = "waiting"
                         /\ players'["orange"].connected
                         /\ players'["gray"].connected
                        THEN "playing" ELSE phase]_vars

\* a disconnected player has come back on a new connection in a finished or
\* suspended game
C19_Rejoined ==
  /\ call.op \in {"rejoinPlayer", "updatePlayerSocket"} /\ result.ret = "true"
  /\ call.socketId = "s3"
  /\ phase \in {"finished", "selecting_graduation"}
  /\ players["orange"].connected /\ players["gray"].connected


----------------------------------------------------------------------------
(* One room of the RoomManager and the socket handlers that reach it.      *)
(* The room exists from create_room on; its id and code are fixed, so     *)
(* rejoinRoom's room lookup succeeds and a disconnect record of the room   *)
(* carries this room's id.                                                 *)

\* the room's game and the manager's three maps, restricted to this room
ThisRoom ==
  [game |-> This, playerRooms |-> playerRooms, playerTokens |-> playerTokens,
   disconnectedPlayers |-> disconnectedPlayers]

\* what a manager method returns: success with a color, or an error
RoomResult(success, color, error) ==
  [NoResult EXCEPT !.valid = success, !.ret = color, !.error = error]

joinRoom(m, socketId, playerToken) ==
  LET r == addPlayer(m.game, socketId, playerToken)
  IN  IF r.ret = "none" THEN
        [m |-> m, result |-> RoomResult(FALSE, "none", "Room is full")]
      ELSE
        [m |-> [game |-> r.g,
                playerRooms |-> m.playerRooms \cup {socketId},
                playerTokens |->
                  IF playerToken # "none"
                    THEN [m.playerTokens EXCEPT ![socketId] = playerToken]
                    ELSE m.playerTokens,
                disconnectedPlayers |->
                  IF playerToken # "none"
                    THEN [m.disconnectedPlayers EXCEPT ![playerToken] = NoRecord]
                    ELSE m.disconnectedPlayers],
         result |-> RoomResult(TRUE, r.ret, "none")]

rejoinRoom(m, socketId, playerToken) ==
  LET disconnected == m.disconnectedPlayers[playerToken]
      r1 == rejoinPlayer(m.game, socketId, playerToken, disconnected.color)
      existingColor == getPlayerColorByToken(m.game, playerToken)
      r2 == updatePlayerSocket(m.game, playerToken, socketId)
  IN  IF disconnected.color # "none" /\ ~disconnected.expired /\ r1.ret = "true" THEN
        [m |-> [game |-> r1.g,
                playerRooms |-> m.playerRooms \cup {socketId},
                playerTokens |-> [m.playerTokens EXCEPT ![socketId] = playerToken],
                disconnectedPlayers |->
                  [m.disconnectedPlayers EXCEPT ![playerToken] = NoRecord]],
         result |-> RoomResult(TRUE, disconnected.color, "none")]
      ELSE IF existingColor # "none" /\ r2.ret = "true" THEN
        [m |-> [m EXCEPT !.game = r2.g,
                         !.playerRooms = @ \cup {socketId},
                         !.playerTokens = [@ EXCEPT ![socketId] = playerToken]],
         result |-> RoomResult(TRUE, existingColor, "none")]
      ELSE
        [m |-> m,
         result |-> RoomResult(FALSE, "none",
                               "Cannot rejoin - session expired or slot taken")]

softDisconnect(m, socketId) ==
  LET playerToken == m.playerTokens[socketId]
      r == disconnectPlayer(m.game, socketId)
  IN  IF socketId \notin m.playerRooms THEN
        [m |-> m, result |-> RoomResult(FALSE, "none", "none")]
      ELSE
        [m |-> [game |-> r.g,
                playerRooms |-> m.playerRooms \ {socketId},
                playerTokens |-> [m.playerTokens EXCEPT ![socketId] = "none"],
                disconnectedPlayers |->
                  IF r.ret # "none" /\ playerToken # "none"
                    THEN [m.disconnectedPlayers EXCEPT
                            ![playerToken] = [color |-> r.ret, expired |-> FALSE]]
                    ELSE m.disconnectedPlayers],
         result |-> RoomResult(r.ret # "none", r.ret, "none")]

leaveRoom(m, socketId) ==
  LET playerToken == m.playerTokens[socketId]
      r == removePlayer(m.game, socketId)
  IN  IF socketId \notin m.playerRooms THEN
        [m |-> m, result |-> RoomResult(FALSE, "none", "none")]
      ELSE
        [m |-> [game |-> r.g,
                playerRooms |-> m.playerRooms \ {socketId},
                playerTokens |-> [m.playerTokens EXCEPT ![socketId] = "none"],
                disconnectedPlayers |->
                  IF playerToken # "none"
                    THEN [m.disconnectedPlayers EXCEPT ![playerToken] = NoRecord]
                    ELSE m.disconnectedPlayers],
         result |-> RoomResult(r.ret # "none", r.ret, "none")]

\* the place_piece handler: the connection must be mapped to the room
place_piece(m, socketId, row, col, pieceType) ==
  LET r == placePiece(m.game, socketId, row, col, pieceType)
  IN  IF socketId \notin m.playerRooms THEN
        [m |-> m, result |-> Failure("Not in a room")]
      ELSE [m |-> [m EXCEPT !.game = r.g], result |-> r.result]

\* the events of a connection, as calls
Event(op, socketId, playerToken) ==
  [NoCall EXCEPT !.op = op, !.socketId = socketId, !.playerToken = playerToken]

\* the manager takes the state m, the event x returned r
RoomDoes(x, m, r) ==
  /\ board' = m.game.board
  /\ players' = m.game.players
  /\ currentTurn' = m.game.currentTurn
  /\ phase' = m.game.phase
  /\ winner' = m.game.winner
  /\ lastMove' = m.game.lastMove
  /\ boopedPieces' = m.game.boopedPieces
  /\ graduatedPieces' = m.game.graduatedPieces
  /\ pendingGraduationOptions' = m.game.pendingGraduationOptions
  /\ pendingGraduationPlayer' = m.game.pendingGraduationPlayer
  /\ playerRooms' = m.playerRooms
  /\ playerTokens' = m.playerTokens
  /\ disconnectedPlayers' = m.disconnectedPlayers
  /\ closed' = IF x.op = "softDisconnect" THEN closed \cup {x.socketId} ELSE closed
  /\ call' = x
  /\ result' = r
  /\ UNCHANGED <<script, steps, transpositionTable, moveCount>>

\* pieces the connections of the room place at most
MaxRoomPieces == 1

\* the cell they place on
RoomCells == {<<2, 2>>}

\* create_room has made the room: a new game, no connection mapped to it
InitRoom ==
  /\ board = NewGame.board
  /\ players = NewGame.players
  /\ currentTurn = NewGame.currentTurn
  /\ phase = NewGame.phase
  /\ winner = NewGame.winner
  /\ lastMove = NewGame.lastMove
  /\ boopedPieces = NewGame.boopedPieces
  /\ graduatedPieces = NewGame.graduatedPieces
  /\ pendingGraduationOptions = NewGame.pendingGraduationOptions
  /\ pendingGraduationPlayer = NewGame.pendingGraduationPlayer
  /\ playerRooms = {}
  /\ playerTokens = [s \in Connections |-> "none"]
  /\ disconnectedPlayers = [t \in Tokens |-> NoRecord]
  /\ closed = {}
  /\ transpositionTable = <<>>
  /\ moveCount = 0
  /\ call = NoCall
  /\ result = NoResult
  /\ script = <<>>
  /\ steps = 0

\* the connections that are open
Open == Connections \ closed

\* join_room
JoinRoom ==
  \E socketId \in Open :
    LET r == joinRoom(ThisRoom, socketId, tokenOf(socketId))
    IN  RoomDoes(Event("joinRoom", socketId, tokenOf(socketId)), r.m, r.result)

\* rejoin_room
RejoinRoom ==
  \E socketId \in Open :
    LET r == rejoinRoom(ThisRoom, socketId, tokenOf(socketId))
    IN  RoomDoes(Event("rejoinRoom", socketId, tokenOf(socketId)), r.m, r.result)

\* the connection ends: the disconnect handler
SoftDisconnect ==
  \E socketId \in Open :
    LET r == softDisconnect(ThisRoom, socketId)
    IN  RoomDoes(Event("softDisconnect", socketId, "none"), r.m, r.result)

\* leave_room
LeaveRoom ==
  \E socketId \in Open :
    LET r == leaveRoom(ThisRoom, socketId)
    IN  RoomDoes(Event("leaveRoom", socketId, "none"), r.m, r.result)

\* place_piece
PlaceInRoom ==
  /\ Cardinality({cell \in Cells : board[cell] # NoPiece}) < MaxRoomPieces
  /\ \E socketId \in Open : \E cell \in RoomCells :
       LET r == place_piece(ThisRoom, socketId, cell[1], cell[2], "kitten")
       IN  RoomDoes(Place(socketId, cell[1], cell[2], "kitten"), r.m, r.result)

\* GRACE_PERIOD_MS go by with no event: every stored record is now that old
GracePeriodPasses ==
  /\ \E t \in Tokens : /\ disconnectedPlayers[t] # NoRecord
                       /\ ~disconnectedPlayers[t].expired
  /\ disconnectedPlayers' =
       [t \in Tokens |-> IF disconnectedPlayers[t] = NoRecord THEN NoRecord
                         ELSE [disconnectedPlayers[t] EXCEPT !.expired = TRUE]]
  /\ call' = Event("time", "none", "none")
  /\ result' = NoResult
  /\ UNCHANGED <<engineVars, playerRooms, playerTokens, closed, script, steps,
               transpositionTable, moveCount>>

NextRoom ==
  \/ JoinRoom
  \/ RejoinRoom
  \/ SoftDisconnect
  \/ LeaveRoom
  \/ PlaceInRoom
  \/ GracePeriodPasses

SpecRoom == InitRoom /\ [][NextRoom]_vars


----------------------------------------------------------------------------
(* C20 - Token rejoin keeps the color: when a session with token T was     *)
(* seated as color c and its connection ended, every successful rejoinRoom *)
(* with T from a new connection returns c and rebinds slot c, and only     *)
(* slot c, to the new connection, which placePiece then resolves to c; a   *)
(* rejoin never seats the session as a color that does not carry T, and a  *)
(* token that matches no slot is rejected.                                 *)

\* the colors whose slot carries the token and is marked disconnected
disconnectedSeats(playerToken) ==
  {color \in PlayerColor : /\ players[color] # NoPlayer
                           /\ players[color].playerToken = playerToken
                           /\ ~players[color].connected}

\* the colors whose slot carries the token
tokenSeats(playerToken) ==
  {color \in PlayerColor : /\ players[color] # NoPlayer
                           /\ players[color].playerToken = playerToken}

C20_TokenRejoinKeepsColor ==
  [][(IsCall("rejoinRoom") /\ seatsOf(call'.socketId) = {})
       => /\ tokenSeats(call'.playerToken) = {} => ~result'.valid
          /\ result'.valid => result'.ret \in tokenSeats(call'.playerToken)
          /\ (result'.valid /\ disconnectedSeats(call'.playerToken) # {})
               => /\ result'.ret \in disconnectedSeats(call'.playerToken)
                  /\ players' = [players EXCEPT
                                   ![result'.ret].socketId = call'.socketId,
                                   ![result'.ret].connected = TRUE]
                  /\ getPlayerBySocketId([players |-> players'], call'.socketId).color
                       = result'.ret]_vars


----------------------------------------------------------------------------
(* C21 - Disconnect is idempotent: a disconnectPlayer changes nothing but  *)
(* the connected flag of the first slot that holds the connection identity *)
(* (board, pools, currentTurn, phase, winner and the rest stay), and a     *)
(* second disconnectPlayer for the same identity right after it leaves the *)
(* engine as the first left it; the same holds for the room's              *)
(* softDisconnect, whatever connections the room has mapped.               *)

\* the rooms a manager may hold around the game g: any set of mapped
\* connections, with their browsers' tokens or with none
RoomsAround(g) ==
  {[game |-> g, playerRooms |-> mapped,
    playerTokens |-> [s \in Connections |-> IF known THEN tokenOf(s) ELSE "none"],
    disconnectedPlayers |-> disconnectedPlayers] :
     mapped \in SUBSET Connections, known \in BOOLEAN}

C21_DisconnectIdempotent ==
  [][IsCall("disconnectPlayer")
       => /\ players' = IF seatsOf(call'.socketId) = {} THEN players
                        ELSE [players EXCEPT ![actorOf(call'.socketId).color].connected = FALSE]
          /\ UNCHANGED <<board, currentTurn, phase, winner, lastMove, boopedPieces,
                         graduatedPieces, pendingGraduationOptions,
                         pendingGraduationPlayer>>
          /\ disconnectPlayer(This', call'.socketId).g = This'
          /\ \A m \in RoomsAround(This) :
               LET once == softDisconnect(m, call'.socketId).m
               IN  /\ once.game = IF call'.socketId \in m.playerRooms THEN This' ELSE This
                   /\ softDisconnect(once, call'.socketId).m.game = once.game]_vars

\* a connection of a game in progress has been disconnected and it was
\* disconnected before: the call found its slot already marked
C21_DisconnectedTwice ==
  /\ call.op = "disconnectPlayer" /\ result.ret = "gray"
  /\ script = <<>> /\ steps = 1
  /\ players["gray"].socketId = "s2" /\ ~players["gray"].connected
  /\ winner = "orange"

----------------------------------------------------------------------------
\* The boop pass against the board of the placement

\* the directions whose neighbor moves when each direction is judged on the
\* board b0 as it stands right after the placement
snapshotMoves(b0, placed, placedType) ==
  {i \in 1 .. Len(DIRECTIONS) :
     LET adj == neighbor(placed, DIRECTIONS[i])
         dest == neighbor(adj, DIRECTIONS[i])
     IN  /\ adj \in Cells
         /\ b0[adj] # NoPiece
         /\ ~(placedType = "kitten" /\ b0[adj].type = "cat")
         /\ (dest \in Cells => b0[dest] = NoPiece)}

\* every moved neighbor stands two steps from the placed cell, or is gone
\* when that is off the board; no other cell changes
snapshotBoard(b0, placed, placedType) ==
  LET moves == snapshotMoves(b0, placed, placedType)
      from(i) == neighbor(placed, DIRECTIONS[i])
      to(i) == neighbor(from(i), DIRECTIONS[i])
  IN  [cell \in Cells |->
         IF \E i \in moves : to(i) = cell
           THEN b0[from(CHOOSE i \in moves : to(i) = cell)]
         ELSE IF \E i \in moves : from(i) = cell THEN NoPiece
         ELSE b0[cell]]

\* every piece moved off the board is counted in the pool of its owner, when
\* the owner has a player record
snapshotPools(pl, b0, placed, placedType) ==
  LET moves == snapshotMoves(b0, placed, placedType)
      off(color, type) ==
        Cardinality({i \in moves :
          /\ neighbor(neighbor(placed, DIRECTIONS[i]), DIRECTIONS[i]) \notin Cells
          /\ b0[neighbor(placed, DIRECTIONS[i])] = [color |-> color, type |-> type]})
  IN  [color \in PlayerColor |->
         IF pl[color] = NoPlayer THEN NoPlayer
         ELSE [pl[color] EXCEPT !.kittensInPool = @ + off(color, "kitten"),
                                !.catsInPool = @ + off(color, "cat")]]

\* other orders of visiting the eight directions: DIRECTIONS started at its
\* fourth entry, and its reverse started at its first and at its fourth
Orders ==
  LET n == Len(DIRECTIONS)
      rotated(seq, r) == [i \in 1 .. n |-> seq[((i + r - 1) % n) + 1]]
      reversed == [i \in 1 .. n |-> DIRECTIONS[n + 1 - i]]
  IN  {rotated(DIRECTIONS, 3), reversed, rotated(reversed, 3)}

\* C25: in a valid placement the board and the pools after the boop pass
\* are those obtained by judging each of the eight directions on the board
\* as it stood right after the placement: a moved neighbor of the placed cell
\* ends two steps from the placed cell or, off the board, in its owner's
\* pool; every reported effect starts at a neighbor; and visiting the
\* directions in another order gives the same board and pools.
C25_BoopSnapshot ==
  [][(IsCall("placePiece") /\ result'.valid)
       => LET placed == <<call'.row, call'.col>>
              b0 == AfterPlacement.board
              effects == result'.boopedPieces
              start == [AfterPlacement EXCEPT !.boopedPieces = <<>>,
                                              !.graduatedPieces = <<>>]
          IN  /\ AfterBoop.board = snapshotBoard(b0, placed, call'.pieceType)
              /\ AfterBoop.players =
                   snapshotPools(AfterPlacement.players, b0, placed, call'.pieceType)
              /\ effects = AfterBoop.boopedPieces
              /\ \A j \in 1 .. Len(effects) :
                   \E i \in snapshotMoves(b0, placed, call'.pieceType) :
                     /\ effects[j].from = neighbor(placed, DIRECTIONS[i])
                     /\ effects[j].to \in
                          {neighbor(effects[j].from, DIRECTIONS[i]), NoCell}
              /\ Len(effects) = Cardinality(snapshotMoves(b0, placed, call'.pieceType))
              /\ \A order \in Orders :
                   LET other == boopInOrder(start, call'.row, call'.col,
                                            call'.pieceType, order)
                   IN  other.board = AfterBoop.board /\ other.players = AfterBoop.players
              /\ \A cell \in Cells :
                   \/ board'[cell] = AfterBoop.board[cell]
                   \/ /\ board'[cell] = NoPiece
                      /\ cell \in cellsOf(graduatedPieces')]_vars

\* a placement that pushed one neighbor and could not push another, whose
\* landing cell was taken
C25_PushedAndBlocked ==
  /\ call.op = "placePiece" /\ result.valid
  /\ Len(result.boopedPieces) >= 1
  /\ \E i \in 1 .. Len(DIRECTIONS) :
       LET adj == neighbor(lastMove, DIRECTIONS[i])
           dest == neighbor(adj, DIRECTIONS[i])
       IN  /\ adj \in Cells /\ dest \in Cells
           /\ board[adj] # NoPiece /\ board[dest] # NoPiece
           /\ ~(call.pieceType = "kitten" /\ board[adj].type = "cat")
           /\ \A j \in 1 .. Len(result.boopedPieces) :
                result.boopedPieces[j].to # dest

----------------------------------------------------------------------------
\* C26: a step taken while phase = selecting_graduation that is not a valid
\* selectGraduation by the pending player leaves the phase at
\* selecting_graduation and the board, the pools of the seated players and
\* currentTurn as they were; this holds for placePiece by either player and
\* for addPlayer, disconnectPlayer, removePlayer and rejoinPlayer.
C26_SuspensionEndsByChoice ==
  [][phase = "selecting_graduation"
       => \/ /\ IsCall("selectGraduation") /\ result'.valid
             /\ pendingGraduationPlayer \in seatsOf(call'.socketId)
          \/ /\ phase' = "selecting_graduation"
             /\ board' = board
             /\ currentTurn' = currentTurn
             /\ \A color \in PlayerColor :
                  (players[color] # NoPlayer /\ players'[color] # NoPlayer)
                    => counts(players'[color]) = counts(players[color])]_vars

----------------------------------------------------------------------------
\* the colors reserved for the token: the room holds a disconnect record of
\* the token for the color, younger than the grace period, and the slot
\* still carries the token
reservedSeats(playerToken) ==
  {color \in PlayerColor :
     /\ disconnectedPlayers[playerToken] = [color |-> color, expired |-> FALSE]
     /\ players[color] # NoPlayer
     /\ players[color].playerToken = playerToken}

\* C30: while the room holds, within the grace period, the disconnect
\* record of token T for color c, a joinRoom by a connection that presents
\* another token leaves slot c as it is, and a rejoinRoom with T succeeds
\* with color c.
C30_ReservedSlot ==
  [][/\ (IsCall("joinRoom") /\ call'.playerToken \in Tokens)
          => \A t \in Tokens \ {call'.playerToken} :
               \A color \in reservedSeats(t) : players'[color] = players[color]
     /\ (IsCall("rejoinRoom") /\ call'.playerToken \in Tokens
          /\ disconnectedPlayers[call'.playerToken] # NoRecord
          /\ ~disconnectedPlayers[call'.playerToken].expired)
          => /\ result'.valid
             /\ result'.ret = disconnectedPlayers[call'.playerToken].color]_vars

----------------------------------------------------------------------------
(* LocalGame: the client-side port of the engine that the bot and the      *)
(* local bot game use.  Its functions take a GameState value; the fields   *)
(* of a GameState are those of `This` (pendingGraduationOptions and        *)
(* pendingGraduationPlayer are optional: <<>> and "none" when absent).     *)
(* An object the functions write into is a record [shared, val]: val is    *)
(* its content and shared tells whether it is the very object it was made  *)
(* from, so that the writes reach the caller's state.                      *)

\* board.map(row => row.map(...)): a new board with the same pieces
cloneBoard(b) == [shared |-> FALSE, val |-> b]

\* clonePlayers that hands out the players object of the state itself
clonePlayers_sameObject(pl) == [shared |-> TRUE, val |-> pl]

\* { orange: { ...orange }, gray: { ...gray } }: new player objects
clonePlayers(pl) == [shared |-> FALSE, val |-> pl]

\* the copy drops the two optional pending fields
cloneGameState(state) ==
  [board |-> cloneBoard(state.board),
   players |-> clonePlayers(state.players),
   currentTurn |-> state.currentTurn,
   phase |-> state.phase,
   winner |-> state.winner,
   lastMove |-> state.lastMove,
   boopedPieces |-> state.boopedPieces,
   graduatedPieces |-> state.graduatedPieces,
   pendingGraduationOptions |-> <<>>,
   pendingGraduationPlayer |-> "none"]

\* what the object `original` holds after `final` was written into obj
afterWrites(original, obj, final) == IF obj.shared THEN final ELSE original

\* createInitialGameState: both seats taken, orange to move
createInitialGameState ==
  [NewGame EXCEPT
     !.players =
       [color \in PlayerColor |->
          [color |-> color, kittensInPool |-> STARTING_KITTENS, catsInPool |-> 0,
           kittensRetired |-> 0,
           socketId |-> IF color = "orange" THEN "local-player" ELSE "local-bot",
           connected |-> TRUE, playerToken |-> "none"]],
     !.phase = "playing"]

NoMove == [row |-> -1, col |-> -1, pieceType |-> "none"]

\* getAllEmptyCells, in row-major order
getAllEmptyCells(b) ==
  LET cellAt(n) == <<(n - 1) \div BOARD_SIZE, (n - 1) % BOARD_SIZE>>
  IN  SelectSeq([n \in 1 .. BOARD_SIZE * BOARD_SIZE |-> cellAt(n)],
                LAMBDA cell : b[cell] = NoPiece)

\* movesOn that offers both piece types whatever the pools hold
movesOn_anyType(player, cell) ==
  << [row |-> cell[1], col |-> cell[2], pieceType |-> "kitten"],
     [row |-> cell[1], col |-> cell[2], pieceType |-> "cat"] >>

\* the moves of one empty cell: a kitten if the pool has one, then a cat
movesOn(player, cell) ==
  (IF player.kittensInPool > 0
     THEN << [row |-> cell[1], col |-> cell[2], pieceType |-> "kitten"] >> ELSE <<>>)
  \o (IF player.catsInPool > 0
        THEN << [row |-> cell[1], col |-> cell[2], pieceType |-> "cat"] >> ELSE <<>>)

\* F of a value that is computed once, as a statement computes the value
\* of a local variable before the statements that read it
bind(value, F(_)) == CHOOSE r \in {F(v) : v \in {value}} : TRUE

\* the moves of the empty cells lo .. hi, in order: those of the first half
\* of the cells, then those of the second half
RECURSIVE movesFrom(_, _, _, _)
movesFrom(player, emptyCells, lo, hi) ==
  IF lo > hi THEN <<>>
  ELSE IF lo = hi THEN movesOn(player, emptyCells[lo])
  ELSE movesFrom(player, emptyCells, lo, (lo + hi) \div 2)
       \o movesFrom(player, emptyCells, (lo + hi) \div 2 + 1, hi)

getAllValidMoves(state, color) ==
  IF state.players[color] = NoPlayer THEN <<>>
  ELSE bind(getAllEmptyCells(state.board),
            LAMBDA emptyCells :
              movesFrom(state.players[color], emptyCells, 1, Len(emptyCells)))

\* the body of the loop of LocalGame's executeBoop for one direction; s holds
\* newBoard, the players object it was given and the list boopedPieces
LocalGame_boopDirection(s, placedRow, placedCol, placedType, d) ==
  LET adj == <<placedRow + d[1], placedCol + d[2]>>
      adjPiece == getPiece(s.board, adj[1], adj[2])
      dest == <<adj[1] + d[1], adj[2] + d[2]>>
      owner == s.players[adjPiece.color]
  IN  IF adjPiece = NoPiece THEN s
      ELSE IF placedType = "kitten" /\ adjPiece.type = "cat" THEN s
      ELSE IF isValidPosition(dest[1], dest[2]) /\ s.board[dest] # NoPiece THEN s
      ELSE IF isValidPosition(dest[1], dest[2]) THEN
        [s EXCEPT !.board = [@ EXCEPT ![adj] = NoPiece, ![dest] = adjPiece],
                  !.boopedPieces = Append(@, [from |-> adj, to |-> dest])]
      ELSE
        [s EXCEPT !.board = [@ EXCEPT ![adj] = NoPiece],
                  !.players =
                    IF owner = NoPlayer THEN @
                    ELSE IF adjPiece.type = "kitten"
                      THEN [@ EXCEPT ![adjPiece.color].kittensInPool = @ + 1]
                      ELSE [@ EXCEPT ![adjPiece.color].catsInPool = @ + 1],
                  !.boopedPieces = Append(@, [from |-> adj, to |-> NoCell])]

RECURSIVE LocalGame_boopFrom(_, _, _, _, _)
LocalGame_boopFrom(s, placedRow, placedCol, placedType, i) ==
  IF i > Len(DIRECTIONS) THEN s
  ELSE bind(LocalGame_boopDirection(s, placedRow, placedCol, placedType, DIRECTIONS[i]),
            LAMBDA t : LocalGame_boopFrom(t, placedRow, placedCol, placedType, i + 1))

\* returns newBoard and boopedPieces, and the players object after its writes
LocalGame_executeBoop(b, placedRow, placedCol, placedPiece, pl) ==
  LocalGame_boopFrom([board |-> cloneBoard(b).val, players |-> pl, boopedPieces |-> <<>>],
                     placedRow, placedCol, placedPiece.type, 1)

\* the same scan as the engine's, with the line loop written out in place
LocalGame_findGraduationOptions(b, playerColor) ==
  scanOptions(b, playerColor, lineStarts(b, playerColor),
              [options |-> <<>>, seen |-> {}])

\* the body of the loop of LocalGame's executeGraduationOption for one cell; s
\* holds newBoard, the player object, graduatedPieces and catsEarned
LocalGame_graduateCell(s, cell) ==
  LET piece == s.board[cell]
  IN  IF piece = NoPiece THEN s
      ELSE IF piece.type = "kitten" THEN
        [s EXCEPT !.board = [@ EXCEPT ![cell] = NoPiece],
                  !.graduatedPieces = Append(@, cell),
                  !.player = [@ EXCEPT !.kittensRetired = @ + 1, !.catsInPool = @ + 1],
                  !.catsEarned = @ + 1]
      ELSE
        [s EXCEPT !.board = [@ EXCEPT ![cell] = NoPiece],
                  !.graduatedPieces = Append(@, cell),
                  !.player = [@ EXCEPT !.catsInPool = @ + 1]]

RECURSIVE LocalGame_graduateFrom(_, _, _)
LocalGame_graduateFrom(s, option, i) ==
  IF i > Len(option) THEN s
  ELSE bind(LocalGame_graduateCell(s, option[i]),
            LAMBDA t : LocalGame_graduateFrom(t, option, i + 1))

\* the result of a graduation step: pendingOptions is <<>> when absent
GraduationStep(b, player) ==
  [board |-> b, player |-> player, graduatedPieces |-> <<>>, catsEarned |-> 0,
   pendingOptions |-> <<>>]

LocalGame_executeGraduationOption(b, option, player) ==
  LocalGame_graduateFrom(GraduationStep(cloneBoard(b).val, player), option, 1)

\* { total, kittens, cats } of a color on the board
LocalGame_countPiecesOnBoard(b, playerColor) ==
  LET kittens == Cardinality({cell \in Cells :
                    b[cell] = [color |-> playerColor, type |-> "kitten"]})
      cats == Cardinality({cell \in Cells :
                    b[cell].color = playerColor /\ b[cell].type # "kitten"})
  IN  [total |-> kittens + cats, kittens |-> kittens, cats |-> cats]

\* a variant that applies the first option when there are several
LocalGame_checkAndExecuteGraduation_firstOption(b, player, playerColor) ==
  LET newBoard == cloneBoard(b).val
      kittens == {cell \in Cells :
                    newBoard[cell] = [color |-> playerColor, type |-> "kitten"]}
      first == CHOOSE cell \in kittens :
                 \A other \in kittens : rowMajor(cell) <= rowMajor(other)
      withOptions(options) ==
        IF Len(options) = 0 THEN
          IF /\ LocalGame_countPiecesOnBoard(newBoard, playerColor).total >= 8
             /\ player.kittensRetired + player.catsInPool < MAX_CATS
             /\ kittens # {}
            THEN [GraduationStep([newBoard EXCEPT ![first] = NoPiece],
                                 [player EXCEPT !.kittensRetired = @ + 1,
                                                !.catsInPool = @ + 1])
                    EXCEPT !.graduatedPieces = << first >>, !.catsEarned = 1]
            ELSE GraduationStep(newBoard, player)
        ELSE IF Len(options) = 1 THEN
          LocalGame_executeGraduationOption(newBoard, options[1], player)
        ELSE LocalGame_executeGraduationOption(newBoard, options[1], player)
  IN  bind(LocalGame_findGraduationOptions(newBoard, playerColor), withOptions)

\* returns the new board, the player object after its writes, the graduated
\* cells, catsEarned and the pending options
LocalGame_checkAndExecuteGraduation(b, player, playerColor) ==
  LET newBoard == cloneBoard(b).val
      kittens == {cell \in Cells :
                    newBoard[cell] = [color |-> playerColor, type |-> "kitten"]}
      first == CHOOSE cell \in kittens :
                 \A other \in kittens : rowMajor(cell) <= rowMajor(other)
      withOptions(options) ==
        IF Len(options) = 0 THEN
          IF /\ LocalGame_countPiecesOnBoard(newBoard, playerColor).total >= 8
             /\ player.kittensRetired + player.catsInPool < MAX_CATS
             /\ kittens # {}
            THEN [GraduationStep([newBoard EXCEPT ![first] = NoPiece],
                                 [player EXCEPT !.kittensRetired = @ + 1,
                                                !.catsInPool = @ + 1])
                    EXCEPT !.graduatedPieces = << first >>, !.catsEarned = 1]
            ELSE GraduationStep(newBoard, player)
        ELSE IF Len(options) = 1 THEN
          LocalGame_executeGraduationOption(newBoard, options[1], player)
        ELSE [GraduationStep(newBoard, player) EXCEPT !.pendingOptions = options]
  IN  bind(LocalGame_findGraduationOptions(newBoard, playerColor), withOptions)

\* the lines findCatLines collects: a start cell and a direction from which
\* three cats of the color stand in a row
findCatLines(b, playerColor) ==
  {line \in Cells \X (1 .. Len(LINE_DIRECTIONS)) :
     \A i \in 0 .. 2 :
       LET cell == <<line[1][1] + i * LINE_DIRECTIONS[line[2]][1],
                     line[1][2] + i * LINE_DIRECTIONS[line[2]][2]>>
       IN  /\ isValidPosition(cell[1], cell[2])
           /\ b[cell] = [color |-> playerColor, type |-> "cat"]}

LocalGame_checkWinCondition(b, playerColor) ==
  IF findCatLines(b, playerColor) # {} THEN "three_cats_in_row"
  ELSE IF LocalGame_countPiecesOnBoard(b, playerColor).cats >= 8 THEN "all_eight_cats"
  ELSE "none"

\* a SimulationResult that reports an invalid move
InvalidSimulation(state, kittens, cats) ==
  [valid |-> FALSE, newBoard |-> state.board, boopedPieces |-> <<>>,
   graduatedPieces |-> <<>>, wins |-> FALSE, winCondition |-> "none",
   createsGraduation |-> FALSE, newKittensInPool |-> kittens, newCatsInPool |-> cats]

\* the players object simulateMove and executeMove have written into when
\* they return: pl is the object with the placed piece taken from the pool
playersWritten(placed, row, col, newPiece, pl, color) ==
  bind(LocalGame_executeBoop(placed, row, col, newPiece, pl),
       LAMBDA boopResult :
         bind(LocalGame_checkAndExecuteGraduation(
                boopResult.board, boopResult.players[color], color),
              LAMBDA gradResult :
                [boopResult.players EXCEPT ![color] = gradResult.player]))

\* what the state object passed to simulateMove holds after the call
simulateMove_state(state, row, col, pieceType, color) ==
  LET player == state.players[color]
      simPlayers == clonePlayers(state.players)
      simBoard == cloneBoard(state.board)
      newPiece == [color |-> color, type |-> pieceType]
      placed == [simBoard.val EXCEPT ![<<row, col>>] = newPiece]
      deducted == IF pieceType = "kitten"
                    THEN [simPlayers.val EXCEPT ![color].kittensInPool = @ - 1]
                    ELSE [simPlayers.val EXCEPT ![color].catsInPool = @ - 1]
  IN  IF ~isValidPosition(row, col) \/ state.board[<<row, col>>] # NoPiece THEN state
      ELSE IF player = NoPlayer THEN state
      ELSE IF \/ pieceType = "kitten" /\ player.kittensInPool <= 0
              \/ pieceType = "cat" /\ player.catsInPool <= 0 THEN state
      ELSE [state EXCEPT
              !.board = afterWrites(@, simBoard, placed),
              !.players = afterWrites(@, simPlayers,
                                      playersWritten(placed, row, col, newPiece,
                                                     deducted, color))]

\* the SimulationResult simulateMove returns
simulateMove_result(state, row, col, pieceType, color) ==
  LET player == state.players[color]
      simPlayers == clonePlayers(state.players)
      simBoard == cloneBoard(state.board)
      newPiece == [color |-> color, type |-> pieceType]
      placed == [simBoard.val EXCEPT ![<<row, col>>] = newPiece]
      deducted == IF pieceType = "kitten"
                    THEN [simPlayers.val EXCEPT ![color].kittensInPool = @ - 1]
                    ELSE [simPlayers.val EXCEPT ![color].catsInPool = @ - 1]
      simulated(boopResult, gradResult, winResult) ==
        [valid |-> TRUE,
         newBoard |-> gradResult.board,
         boopedPieces |-> boopResult.boopedPieces,
         graduatedPieces |-> gradResult.graduatedPieces,
         wins |-> winResult # "none",
         winCondition |-> winResult,
         createsGraduation |-> Len(gradResult.graduatedPieces) > 0,
         newKittensInPool |-> gradResult.player.kittensInPool,
         newCatsInPool |-> gradResult.player.catsInPool]
      graduated(boopResult, gradResult) ==
        bind(LocalGame_checkWinCondition(gradResult.board, color),
             LAMBDA winResult : simulated(boopResult, gradResult, winResult))
      booped(boopResult) ==
        bind(LocalGame_checkAndExecuteGraduation(
               boopResult.board, boopResult.players[color], color),
             LAMBDA gradResult : graduated(boopResult, gradResult))
  IN  IF ~isValidPosition(row, col) \/ state.board[<<row, col>>] # NoPiece THEN
        InvalidSimulation(state,
                          IF player = NoPlayer THEN 0 ELSE player.kittensInPool,
                          IF player = NoPlayer THEN 0 ELSE player.catsInPool)
      ELSE IF player = NoPlayer THEN InvalidSimulation(state, 0, 0)
      ELSE IF \/ pieceType = "kitten" /\ player.kittensInPool <= 0
              \/ pieceType = "cat" /\ player.catsInPool <= 0 THEN
        InvalidSimulation(state, player.kittensInPool, player.catsInPool)
      ELSE bind(LocalGame_executeBoop(placed, row, col, newPiece, deducted), booped)

\* returns the SimulationResult and what the state object holds after the call
simulateMove(state, row, col, pieceType, color) ==
  [state |-> simulateMove_state(state, row, col, pieceType, color),
   result |-> simulateMove_result(state, row, col, pieceType, color)]

\* the error executeMove rejects a move with, "none" for a move it makes;
\* "TypeError" stands for the exception of reading a field of a player that
\* is null
executeMoveError(state, row, col, pieceType, color) ==
  LET player == state.players[color]
  IN  IF state.currentTurn # color THEN "Not your turn"
      ELSE IF state.phase # "playing" THEN "Game not in playing phase"
      ELSE IF ~isValidPosition(row, col) \/ state.board[<<row, col>>] # NoPiece
        THEN "Invalid position"
      ELSE IF player = NoPlayer THEN "TypeError"
      ELSE IF pieceType = "kitten" /\ player.kittensInPool <= 0
        THEN "No kittens available"
      ELSE IF pieceType = "cat" /\ player.catsInPool <= 0
        THEN "No cats available"
      ELSE "none"

\* what the state object passed to executeMove holds after the call
executeMove_state(state, row, col, pieceType, color) ==
  LET newState == cloneGameState(state)
      newPiece == [color |-> color, type |-> pieceType]
      placed == [newState.board.val EXCEPT ![<<row, col>>] = newPiece]
      deducted == IF pieceType = "kitten"
                    THEN [newState.players.val EXCEPT ![color].kittensInPool = @ - 1]
                    ELSE [newState.players.val EXCEPT ![color].catsInPool = @ - 1]
  IN  IF executeMoveError(state, row, col, pieceType, color) # "none" THEN state
      ELSE [state EXCEPT
              !.board = afterWrites(@, newState.board, placed),
              !.players = afterWrites(@, newState.players,
                                      playersWritten(placed, row, col, newPiece,
                                                     deducted, color))]

\* the { newState, valid, error } executeMove returns
executeMove_result(state, row, col, pieceType, color) ==
  LET error == executeMoveError(state, row, col, pieceType, color)
      newState == cloneGameState(state)
      newPiece == [color |-> color, type |-> pieceType]
      placed == [newState.board.val EXCEPT ![<<row, col>>] = newPiece]
      deducted == IF pieceType = "kitten"
                    THEN [newState.players.val EXCEPT ![color].kittensInPool = @ - 1]
                    ELSE [newState.players.val EXCEPT ![color].catsInPool = @ - 1]
      executed(boopResult, gradResult) ==
        LET winResult == LocalGame_checkWinCondition(gradResult.board, color)
            moved == [board |-> gradResult.board,
                      players |-> [boopResult.players EXCEPT
                                     ![color] = gradResult.player],
                      currentTurn |-> newState.currentTurn,
                      phase |-> newState.phase,
                      winner |-> newState.winner,
                      lastMove |-> <<row, col>>,
                      boopedPieces |-> boopResult.boopedPieces,
                      graduatedPieces |-> gradResult.graduatedPieces,
                      pendingGraduationOptions |-> <<>>,
                      pendingGraduationPlayer |-> "none"]
            final == IF Len(gradResult.pendingOptions) > 1 THEN
                       [moved EXCEPT !.phase = "selecting_graduation",
                                     !.pendingGraduationOptions = gradResult.pendingOptions,
                                     !.pendingGraduationPlayer = color]
                     ELSE IF winResult # "none" THEN
                       [moved EXCEPT !.phase = "finished", !.winner = color]
                     ELSE
                       [moved EXCEPT !.currentTurn = IF color = "orange" THEN "gray"
                                                     ELSE "orange"]
        IN  [newState |-> final, valid |-> TRUE, error |-> "none"]
      booped(boopResult) ==
        bind(LocalGame_checkAndExecuteGraduation(
               boopResult.board, boopResult.players[color], color),
             LAMBDA gradResult : executed(boopResult, gradResult))
  IN  IF error # "none" THEN [newState |-> state, valid |-> FALSE, error |-> error]
      ELSE bind(LocalGame_executeBoop(placed, row, col, newPiece, deducted), booped)

\* returns { newState, valid, error } and what the state object holds after
\* the call
executeMove(state, row, col, pieceType, color) ==
  [state |-> executeMove_state(state, row, col, pieceType, color),
   result |-> executeMove_result(state, row, col, pieceType, color)]

----------------------------------------------------------------------------
----------------------------------------------------------------------------
(* The local engine against the server engine                              *)

\* the color a connection plays, "none" for a connection with no seat
seatOf(g, socketId) ==
  IF getPlayerBySocketId(g, socketId) = NoPlayer THEN "none"
  ELSE getPlayerBySocketId(g, socketId).color

\* the counts of the player of a color, <<>> for an empty seat
countsOf(pl, color) == IF pl[color] = NoPlayer THEN <<>> ELSE counts(pl[color])

\* C27: for every placement request by a connection holding a seat,
\* executeMove for that color on the state before the call is valid exactly
\* when placePiece accepts the request, and when it is valid its newState
\* has the board, both players' counts, currentTurn, phase, winner and
\* pending graduation options the engine has after the call.
C27_LocalEqualsServer ==
  [][(IsCall("placePiece") /\ seatOf(This, call'.socketId) # "none")
       => LET color == seatOf(This, call'.socketId)
              exe == executeMove(This, call'.row, call'.col, call'.pieceType,
                                 color).result
          IN  /\ exe.valid = result'.valid
              /\ exe.valid =>
                   /\ exe.newState.board = board'
                   /\ \A pc \in PlayerColor :
                        countsOf(exe.newState.players, pc) = countsOf(players', pc)
                   /\ exe.newState.currentTurn = currentTurn'
                   /\ exe.newState.phase = phase'
                   /\ exe.newState.winner = winner'
                   /\ exe.newState.pendingGraduationOptions
                        = pendingGraduationOptions']_vars

\* C28: for every placement in the playing phase that placePiece accepts,
\* the simulation of that move for the color to move is valid and reports
\* the board, the mover's kitten and cat pools, the boop list and the
\* graduated cells the engine has after the call, and it reports wins
\* exactly when the call declared a winner.
C28_SimulatorMirrorsEngine ==
  [][(IsCall("placePiece") /\ phase = "playing" /\ result'.valid)
       => LET sim == simulateMove(This, call'.row, call'.col, call'.pieceType,
                                  currentTurn).result
          IN  /\ sim.valid
              /\ sim.newBoard = board'
              /\ sim.newKittensInPool = players'[currentTurn].kittensInPool
              /\ sim.newCatsInPool = players'[currentTurn].catsInPool
              /\ sim.boopedPieces = boopedPieces'
              /\ sim.graduatedPieces = graduatedPieces'
              /\ sim.wins <=> result'.winCondition # "none"]_vars

----------------------------------------------------------------------------
(* useBotGame: the hook of a game against the bot                          *)

playerColor == "orange"
botColor == "gray"

\* the loop over the cells of the chosen option in the hook's
\* selectGraduation: s is [board, player, graduatedPieces]
useBotGame_graduateCell(s, cell) ==
  LET piece == s.board[cell]
  IN  IF piece = NoPiece THEN s
      ELSE IF piece.type = "kitten" THEN
        [s EXCEPT !.board = [@ EXCEPT ![cell] = NoPiece],
                  !.graduatedPieces = Append(@, cell),
                  !.player = [@ EXCEPT !.kittensRetired = @ + 1, !.catsInPool = @ + 1]]
      ELSE
        [s EXCEPT !.board = [@ EXCEPT ![cell] = NoPiece],
                  !.graduatedPieces = Append(@, cell),
                  !.player = [@ EXCEPT !.catsInPool = @ + 1]]

RECURSIVE useBotGame_graduateFrom(_, _, _)
useBotGame_graduateFrom(s, option, i) ==
  IF i > Len(option) THEN s
  ELSE useBotGame_graduateFrom(useBotGame_graduateCell(s, option[i]), option, i + 1)

\* the hook's selectGraduation on the state it holds: ret is what the
\* promise resolves to, newState the state handed to setGameState (the
\* state itself when the call returns early)
useBotGame_selectGraduation(gameState, optionIndex) ==
  LET options == gameState.pendingGraduationOptions
      newState == cloneGameState(gameState)
      player == newState.players.val[playerColor]
      done == useBotGame_graduateFrom(
                [board |-> newState.board.val, player |-> player,
                 graduatedPieces |-> <<>>],
                options[optionIndex + 1], 1)
  IN  IF gameState.phase # "selecting_graduation"
        THEN [ret |-> FALSE, newState |-> gameState]
      ELSE IF gameState.pendingGraduationPlayer # playerColor
        THEN [ret |-> FALSE, newState |-> gameState]
      ELSE IF options = <<>> \/ optionIndex < 0 \/ optionIndex >= Len(options)
        THEN [ret |-> FALSE, newState |-> gameState]
      ELSE IF player = NoPlayer THEN [ret |-> FALSE, newState |-> gameState]
      ELSE [ret |-> TRUE,
            newState |->
              [board |-> done.board,
               players |-> [newState.players.val EXCEPT ![playerColor] = done.player],
               currentTurn |-> botColor,
               phase |-> "playing",
               winner |-> newState.winner,
               lastMove |-> newState.lastMove,
               boopedPieces |-> newState.boopedPieces,
               graduatedPieces |-> done.graduatedPieces,
               pendingGraduationOptions |-> <<>>,
               pendingGraduationPlayer |-> "none"]]

\* C29: for every choice the engine accepts from the orange player (the
\* human of a bot game), the hook's selectGraduation on the same state and
\* option succeeds and gives the board, both players' counts, phase,
\* winner and currentTurn the engine has after the call.
C29_HookSelectEqualsEngine ==
  [][(IsCall("selectGraduation") /\ result'.valid
        /\ pendingGraduationPlayer = playerColor)
       => LET hook == useBotGame_selectGraduation(This, call'.optionIndex)
          IN  /\ hook.ret
              /\ hook.newState.board = board'
              /\ \A pc \in PlayerColor :
                   countsOf(hook.newState.players, pc) = countsOf(players', pc)
              /\ hook.newState.phase = phase'
              /\ hook.newState.winner = winner'
              /\ hook.newState.currentTurn = currentTurn']_vars

----------------------------------------------------------------------------
(* BotAI.findBestMove                                                      *)
(* The bot returns one move. Where the source draws at random or runs its  *)
(* tree search over a list, the operators give the set of moves the call   *)
(* can return: pickRandom any element, the search an element of the list   *)
(* it was given (moves[0], or searchRoot's bestMove, which starts as       *)
(* orderedMoves[0] and is only replaced by elements of orderedMoves, a     *)
(* reordering of the list).                                                *)

getOpponentColor(color) == IF color = "orange" THEN "gray" ELSE "orange"

\* the elements of a list of moves
elements(list) == {list[i] : i \in 1 .. Len(list)}

pickRandom(items) == elements(items)

pickBestByTreeSearch(state, moves) == elements(moves)

\* findWinningMoves that finds nothing
findWinningMoves_none(state, moves, color) == <<>>

\* TIER 1: the moves whose simulation wins
findWinningMoves(state, moves, color) ==
  SelectSeq(moves,
            LAMBDA move :
              LET sim == simulateMove(state, move.row, move.col, move.pieceType,
                                      color).result
              IN  sim.valid /\ sim.wins)

\* a variant that takes every cell for a cell where the opponent would win
findBlockingMoves_anyCell(state, moves, color) == moves

\* TIER 2: the moves on the cells where a move of the opponent would win
findBlockingMoves(state, moves, color) ==
  LET opponentColor == getOpponentColor(color)
      opponentMoves == getAllValidMoves(state, opponentColor)
      opponentWinCells ==
        {<<oppMove.row, oppMove.col>> :
           oppMove \in {m \in elements(opponentMoves) :
                          LET sim == simulateMove(state, m.row, m.col, m.pieceType,
                                                  opponentColor).result
                          IN  sim.valid /\ sim.wins}}
      blocking(cells) ==
        IF cells = {} THEN <<>>
        ELSE SelectSeq(moves, LAMBDA move : <<move.row, move.col>> \in cells)
  IN  bind(opponentWinCells, blocking)

\* TIER 3: the moves whose simulation graduates
findGraduationMoves(state, moves, color) ==
  SelectSeq(moves,
            LAMBDA move :
              LET sim == simulateMove(state, move.row, move.col, move.pieceType,
                                      color).result
              IN  sim.valid /\ sim.createsGraduation)

\* TIER 4: the moves on the cells where a move of the opponent would graduate
findBlockGraduationMoves(state, moves, color) ==
  LET opponentColor == getOpponentColor(color)
      opponentMoves == getAllValidMoves(state, opponentColor)
      opponentGradCells ==
        {<<oppMove.row, oppMove.col>> :
           oppMove \in {m \in elements(opponentMoves) :
                          LET sim == simulateMove(state, m.row, m.col, m.pieceType,
                                                  opponentColor).result
                          IN  sim.valid /\ sim.createsGraduation}}
      blocking(cells) ==
        IF cells = {} THEN <<>>
        ELSE SelectSeq(moves, LAMBDA move : <<move.row, move.col>> \in cells)
  IN  bind(opponentGradCells, blocking)

\* the moves findBestMove can return for the bot of a color; {NoMove} is
\* the return of null
findBestMove(state, color) ==
  LET tier5(allMoves) == pickBestByTreeSearch(state, allMoves)
      tier4(allMoves) ==
        bind(findBlockGraduationMoves(state, allMoves, color),
             LAMBDA blockGraduationMoves :
               IF Len(blockGraduationMoves) > 0
                 THEN pickBestByTreeSearch(state, blockGraduationMoves)
                 ELSE tier5(allMoves))
      tier3(allMoves) ==
        bind(findGraduationMoves(state, allMoves, color),
             LAMBDA graduationMoves :
               IF Len(graduationMoves) > 0
                 THEN pickBestByTreeSearch(state, graduationMoves)
                 ELSE tier4(allMoves))
      tier2(allMoves) ==
        bind(findBlockingMoves(state, allMoves, color),
             LAMBDA blockingMoves :
               IF Len(blockingMoves) > 0
                 THEN pickBestByTreeSearch(state, blockingMoves)
                 ELSE tier3(allMoves))
      tier1(allMoves) ==
        bind(findWinningMoves(state, allMoves, color),
             LAMBDA winningMoves :
               IF Len(winningMoves) > 0 THEN pickRandom(winningMoves)
               ELSE tier2(allMoves))
  IN  bind(getAllValidMoves(state, color),
           LAMBDA allMoves : IF Len(allMoves) = 0 THEN {NoMove} ELSE tier1(allMoves))

----------------------------------------------------------------------------
(* A game against the bot: the hook holds the GameState in the engine's    *)
(* fields, the human plays orange through placePiece and selectGraduation, *)
(* and the timer set by executeBotMove makes the bot's move. executeBotMove *)
(* sets the timer exactly when the state it is given has phase = playing   *)
(* and currentTurn = botColor, and the hook accepts no call of the human   *)
(* in such a state, so the timer is pending exactly in those states.       *)

BotMove(row, col, pieceType) ==
  [NoCall EXCEPT !.op = "executeBotMove", !.socketId = "local-bot", !.row = row,
                 !.col = col, !.pieceType = pieceType]

\* the human takes a choice of two columns, the bot blocks the one cell
\* that graduates and pushes a fourth kitten into the column
LocalGameChoice ==
  << Place("local-player", 0, 5, "kitten"), BotMove(0, 0, "kitten"),
     Place("local-player", 2, 5, "kitten"), BotMove(1, 0, "kitten"),
     Place("local-player", 3, 5, "kitten"), BotMove(4, 5, "kitten"),
     Place("local-player", 3, 5, "kitten"), Select("local-player", 1) >>

\* the bot graduates three kittens, lines up two cats behind a kitten of
\* the human and wins with the third
LocalGameBotWins ==
  << Place("local-player", 0, 5, "kitten"), BotMove(5, 3, "kitten"),
     Place("local-player", 0, 0, "kitten"), BotMove(5, 1, "kitten"),
     Place("local-player", 0, 2, "kitten"), BotMove(5, 0, "kitten"),
     Place("local-player", 3, 5, "kitten"), BotMove(5, 1, "kitten"),
     Place("local-player", 1, 4, "kitten"), BotMove(2, 1, "cat"),
     Place("local-player", 2, 0, "kitten"), BotMove(2, 2, "cat"),
     Place("local-player", 0, 4, "kitten"), BotMove(2, 3, "cat") >>

\* the pushes of both sides leave kittens of the bot on 5,2 5,4 and 5,5;
\* its kitten on 5,3 then completes a row of four
LocalGameBotChoice ==
  << Place("local-player", 4, 0, "kitten"), BotMove(4, 4, "kitten"),
     Place("local-player", 2, 3, "kitten"), BotMove(3, 2, "kitten"),
     Place("local-player", 5, 0, "kitten"), BotMove(2, 0, "kitten"),
     Place("local-player", 5, 1, "kitten"), BotMove(3, 4, "kitten"),
     Place("local-player", 2, 3, "kitten"), BotMove(3, 5, "kitten"),
     Place("local-player", 3, 0, "kitten"), BotMove(5, 3, "kitten") >>

\* after its choice the human lines up two cats on row 5 against a kitten
\* of the bot and threatens to win on 5,1; the bot takes the cell
LocalGameThreat ==
  LocalGameChoice \o
  << BotMove(4, 0, "kitten"), Place("local-player", 5, 3, "cat"),
     BotMove(5, 4, "kitten"), Place("local-player", 5, 2, "cat"),
     BotMove(5, 1, "kitten") >>

LocalGames ==
  {LocalGameChoice, LocalGameBotWins, LocalGameBotChoice, LocalGameThreat}

LocalScripts ==
  UNION {{SubSeq(game, 1, n) : n \in 0 .. Len(game)} : game \in LocalGames}

\* what the human tries after the replay
HumanFreeCalls ==
  {Place("local-player", cell[1], cell[2], type) :
     cell \in {<<2, 4>>, <<0, 5>>, <<3, 3>>}, type \in {"kitten", "cat"}}
  \cup {Select("local-player", i) : i \in {0, 2}}

HumanCalls(op) ==
  IF script # <<>> THEN {x \in {Head(script)} : x.op = op}
  ELSE IF steps < MaxSteps THEN {x \in HumanFreeCalls : x.op = op}
  ELSE {}

\* the moves the timer callback may make now: the recorded one if the bot
\* can return it, any move the bot can return after the replay
BotCalls ==
  LET botMoves == {BotMove(move.row, move.col, move.pieceType) :
                     move \in findBestMove(This, botColor)}
  IN  IF script # <<>> THEN {x \in {Head(script)} : x \in botMoves}
      ELSE IF steps < MaxSteps THEN botMoves
      ELSE {}

\* the hook's placePiece: ret is what the promise resolves to, newState the
\* state the hook holds afterwards
useBotGame_placePiece(gameState, row, col, pieceType) ==
  LET exe == executeMove(gameState, row, col, pieceType, playerColor).result
  IN  IF gameState.currentTurn # playerColor THEN [ret |-> FALSE, newState |-> gameState]
      ELSE IF gameState.phase # "playing" THEN [ret |-> FALSE, newState |-> gameState]
      ELSE IF ~exe.valid THEN [ret |-> FALSE, newState |-> gameState]
      ELSE [ret |-> TRUE, newState |-> exe.newState]

\* the timer callback of executeBotMove for the move findBestMove returned
useBotGame_executeBotMove(state, move) ==
  LET exe == executeMove(state, move.row, move.col, move.pieceType, botColor).result
  IN  IF move = NoMove THEN [ret |-> FALSE, newState |-> state]
      ELSE IF ~exe.valid THEN [ret |-> FALSE, newState |-> state]
      ELSE [ret |-> TRUE, newState |-> exe.newState]

\* what a call of the hook resolved to
Resolved(r) == [NoResult EXCEPT !.valid = r.ret]

InitBot ==
  /\ board = createInitialGameState.board
  /\ players = createInitialGameState.players
  /\ currentTurn = createInitialGameState.currentTurn
  /\ phase = createInitialGameState.phase
  /\ winner = createInitialGameState.winner
  /\ lastMove = createInitialGameState.lastMove
  /\ boopedPieces = createInitialGameState.boopedPieces
  /\ graduatedPieces = createInitialGameState.graduatedPieces
  /\ pendingGraduationOptions = createInitialGameState.pendingGraduationOptions
  /\ pendingGraduationPlayer = createInitialGameState.pendingGraduationPlayer
  /\ call = NoCall
  /\ result = NoResult
  /\ script \in LocalScripts
  /\ steps = 0
  /\ playerRooms = {}
  /\ playerTokens = [s \in Connections |-> "none"]
  /\ disconnectedPlayers = [t \in Tokens |-> NoRecord]
  /\ closed = {}
  /\ transpositionTable = <<>>
  /\ moveCount = 0

HumanPlacePiece ==
  \E x \in HumanCalls("placePiece") :
    LET r == useBotGame_placePiece(This, x.row, x.col, x.pieceType)
    IN  Does(x, r.newState, Resolved(r))

HumanSelectGraduation ==
  \E x \in HumanCalls("selectGraduation") :
    LET r == useBotGame_selectGraduation(This, x.optionIndex)
    IN  Does(x, r.newState, Resolved(r))

ExecuteBotMove ==
  /\ phase = "playing"
  /\ currentTurn = botColor
  /\ \E x \in BotCalls :
       LET r == useBotGame_executeBotMove(
                  This, [row |-> x.row, col |-> x.col, pieceType |-> x.pieceType])
       IN  Does(x, r.newState, Resolved(r))

NextBot ==
  \/ HumanPlacePiece
  \/ HumanSelectGraduation
  \/ ExecuteBotMove

SpecBot == InitBot /\ [][NextBot]_vars

\* the moves of a color that are legal on a state: an empty cell of the
\* board and a piece type the pool of the color holds
legalMoves(state, color) ==
  {move \in [row : 0 .. BOARD_SIZE - 1, col : 0 .. BOARD_SIZE - 1,
             pieceType : {"kitten", "cat"}] :
     /\ state.board[<<move.row, move.col>>] = NoPiece
     /\ \/ move.pieceType = "kitten" /\ state.players[color].kittensInPool > 0
        \/ move.pieceType = "cat" /\ state.players[color].catsInPool > 0}

C24_BotTakesWin ==
  (phase = "playing" /\ currentTurn = botColor)
    => LET winning == {move \in legalMoves(This, botColor) :
                         simulateMove(This, move.row, move.col, move.pieceType,
                                      botColor).result.wins}
       IN  winning # {} => findBestMove(This, botColor) \subseteq winning

\* the bot has just made a move it was returned and has won with it
C24_BotWon ==
  /\ call.op = "executeBotMove"
  /\ result.valid
  /\ phase = "finished"
  /\ winner = botColor

----------------------------------------------------------------------------
\* removes every record that is GRACE_PERIOD_MS old or older
cleanupDisconnectedPlayers(m) ==
  [m EXCEPT !.disconnectedPlayers =
              [t \in Tokens |-> IF m.disconnectedPlayers[t].expired THEN NoRecord
                                ELSE m.disconnectedPlayers[t]]]

\* C31: a rejoinRoom with a token whose disconnect record is
\* GRACE_PERIOD_MS old or older fails with 'Cannot rejoin - session expired
\* or slot taken' and leaves every slot as it is, and so does the same
\* call made after cleanupDisconnectedPlayers has removed the record.
C31_GracePeriodEnforced ==
  [][(IsCall("rejoinRoom") /\ call'.playerToken \in Tokens
        /\ disconnectedPlayers[call'.playerToken].expired)
       => LET cleaned == rejoinRoom(cleanupDisconnectedPlayers(ThisRoom),
                                    call'.socketId, call'.playerToken)
          IN  /\ ~result'.valid
              /\ result'.error = "Cannot rejoin - session expired or slot taken"
              /\ players' = players
              /\ ~cleaned.result.valid
              /\ cleaned.m.game.players = players]_vars

----------------------------------------------------------------------------
\* C32: in every reachable state pendingGraduationOptions and
\* pendingGraduationPlayer are set exactly when the phase is
\* selecting_graduation; when they are set there are two options or more,
\* the pending player is the color to move, and every stored option is
\* three cells in a straight line, all occupied by pieces of that color,
\* one of them a kitten.
C32_PendingChoiceCoupling ==
  /\ pendingGraduationOptions # <<>> <=> phase = "selecting_graduation"
  /\ pendingGraduationPlayer # "none" <=> phase = "selecting_graduation"
  /\ phase = "selecting_graduation"
       => /\ Len(pendingGraduationOptions) >= 2
          /\ pendingGraduationPlayer = currentTurn
          /\ \A i \in 1 .. Len(pendingGraduationOptions) :
               /\ Len(pendingGraduationOptions[i]) = 3
               /\ cellsOf(pendingGraduationOptions[i])
                    \in GraduationLines(board, pendingGraduationPlayer)

----------------------------------------------------------------------------
\* C33: in every reachable state whose phase is playing, neither color has
\* three of its cats in a row or MAX_CATS cats on the board.
C33_NoUndetectedWin ==
  phase = "playing" => \A color \in PlayerColor : ~WinOnBoard(board, color)

----------------------------------------------------------------------------
\* C34: in every reachable state of a room the orange slot and the gray
\* slot do not hold the same connection identity.
C34_DistinctSeats ==
  (players["orange"] # NoPlayer /\ players["gray"] # NoPlayer)
    => players["orange"].socketId # players["gray"].socketId

----------------------------------------------------------------------------
\* the human has a placement the hook accepts
humanCanPlace ==
  \E move \in legalMoves(This, playerColor) :
    useBotGame_placePiece(This, move.row, move.col, move.pieceType).ret

\* the human has a graduation choice the hook accepts
humanCanSelect ==
  \E optionIndex \in 0 .. Len(pendingGraduationOptions) - 1 :
    useBotGame_selectGraduation(This, optionIndex).ret

\* the timer of executeBotMove is pending and its callback has a move to make
botCanMove ==
  /\ phase = "playing"
  /\ currentTurn = botColor
  /\ \E move \in legalMoves(This, botColor) : useBotGame_executeBotMove(This, move).ret

----------------------------------------------------------------------------
(* BotAI's tree search: the states it builds and the scores it returns.    *)

\* the GameState the search continues from after the simulated move sim of
\* movingPlayer on originalState
buildResultingState(originalState, sim, movingPlayer) ==
  [originalState EXCEPT
     !.board = sim.newBoard,
     !.currentTurn = getOpponentColor(movingPlayer),
     !.players = [@ EXCEPT ![movingPlayer] =
                    IF @ = NoPlayer THEN NoPlayer
                    ELSE [@ EXCEPT !.kittensInPool = sim.newKittensInPool,
                                   !.catsInPool = sim.newCatsInPool]]]

\* the kittens of the color in the state add up to STARTING_KITTENS
conserved(state, color) ==
  state.players[color].kittensInPool
    + piecesOnBoard(state.board, color, "kitten")
    + state.players[color].kittensRetired = STARTING_KITTENS

\* C36: in every state of a game against the bot in which a move is due and
\* the kittens of both colors add up, the state the search builds from
\* every valid simulated move of the color to move has, for both colors,
\* kittensInPool + kittens on the board + kittensRetired = 8.
C36_SearchStatesConserve ==
  (phase = "playing" /\ \A color \in PlayerColor : conserved(This, color))
    => \A move \in legalMoves(This, currentTurn) :
         LET sim == simulateMove_result(This, move.row, move.col, move.pieceType,
                                        currentTurn)
         IN  sim.valid
               => \A color \in PlayerColor :
                    conserved(buildResultingState(This, sim, currentTurn), color)

----------------------------------------------------------------------------
\* the board and the players after the boop pass of the simulated placement
simulatedBoop(state, row, col, pieceType, color) ==
  LET newPiece == [color |-> color, type |-> pieceType]
  IN  LocalGame_executeBoop(
        [state.board EXCEPT ![<<row, col>>] = newPiece], row, col, newPiece,
        IF pieceType = "kitten"
          THEN [state.players EXCEPT ![color].kittensInPool = @ - 1]
          ELSE [state.players EXCEPT ![color].catsInPool = @ - 1])

\* C37: when a simulated placement (an empty cell of the board, a piece
\* type the color holds) leaves the acting color,
\* after its boops, with two or more graduation lines, simulateMove applies
\* none of them: newBoard is the board after the boops with every cell of
\* every line occupied, graduatedPieces is empty, createsGraduation is
\* false, and the pool counts are those after the boops.
C37_SimulatorDoesNotChoose ==
  [][IsCall("placePiece")
       => \A color \in PlayerColor :
            LET sim == simulateMove_result(This, call'.row, call'.col,
                                           call'.pieceType, color)
                booped == simulatedBoop(This, call'.row, call'.col,
                                        call'.pieceType, color)
            IN  (/\ isValidPosition(call'.row, call'.col)
                 /\ board[<<call'.row, call'.col>>] = NoPiece
                 /\ players[color] # NoPlayer
                 /\ call'.pieceType = "kitten" => players[color].kittensInPool > 0
                 /\ call'.pieceType = "cat" => players[color].catsInPool > 0
                 /\ Cardinality(GraduationLines(booped.board, color)) >= 2)
                  => /\ sim.valid
                     /\ sim.newBoard = booped.board
                     /\ \A line \in GraduationLines(booped.board, color) :
                          \A cell \in line : sim.newBoard[cell] # NoPiece
                     /\ sim.graduatedPieces = <<>>
                     /\ ~sim.createsGraduation
                     /\ sim.newKittensInPool = booped.players[color].kittensInPool
                     /\ sim.newCatsInPool = booped.players[color].catsInPool]_vars

\* the placement requested next simulates to two or more graduation lines
C37_SimulatedChoice ==
  /\ script # <<>> /\ Head(script).op = "placePiece"
  /\ phase = "playing"
  /\ LET x == Head(script)
     IN  /\ simulateMove_result(This, x.row, x.col, x.pieceType, currentTurn).valid
         /\ Cardinality(GraduationLines(
              simulatedBoop(This, x.row, x.col, x.pieceType, currentTurn).board,
              currentTurn)) >= 2

----------------------------------------------------------------------------
\* the simulation of every legal move of the color on the current state
simulations(color) ==
  [move \in legalMoves(This, color) |->
     simulateMove_result(This, move.row, move.col, move.pieceType, color)]

\* the moves among the simulated ones that simulate to a win
winsFor(sims) == {move \in DOMAIN sims : sims[move].valid /\ sims[move].wins}

\* the moves among the simulated ones that simulate to a graduation
graduatesFor(sims) ==
  {move \in DOMAIN sims : sims[move].valid /\ sims[move].createsGraduation}

\* the legal moves of the bot that land on a cell of one of the moves
landingOn(moves) ==
  bind({<<other.row, other.col>> : other \in moves},
       LAMBDA cells : {move \in legalMoves(This, botColor) :
                         <<move.row, move.col>> \in cells})

\* the candidate set of the first tier that has one
firstTier ==
  LET tiers(own, theirs) ==
        IF winsFor(own) # {} THEN winsFor(own)
        ELSE IF landingOn(winsFor(theirs)) # {} THEN landingOn(winsFor(theirs))
        ELSE IF graduatesFor(own) # {} THEN graduatesFor(own)
        ELSE IF landingOn(graduatesFor(theirs)) # {}
          THEN landingOn(graduatesFor(theirs))
        ELSE legalMoves(This, botColor)
  IN  bind(simulations(botColor),
           LAMBDA own : bind(simulations(playerColor),
                             LAMBDA theirs : tiers(own, theirs)))

\* C38: in every state of a game against the bot in which the bot is asked
\* for its move, makes it and has a legal move, every move findBestMove can return
\* is a move, and one of the first of the tiers win, block-win,
\* create-graduation, block-graduation, all moves whose candidate set is
\* not empty; so with no winning move and a legal move on a cell where a
\* move of the opponent would win, the returned move lands on such a cell.
C38_TierCascade ==
  (/\ phase = "playing" /\ currentTurn = botColor
   /\ script # <<>> \/ steps < MaxSteps
   /\ legalMoves(This, botColor) # {})
    => bind(findBestMove(This, botColor),
            LAMBDA best : best # {} /\ bind(firstTier, LAMBDA tier : best \subseteq tier))

\* the bot is asked for its move with no winning move of its own while a
\* move of the human would win
C38_BlockingTier ==
  /\ phase = "playing" /\ currentTurn = botColor
  /\ script # <<>> /\ Head(script).op = "executeBotMove"
  /\ winsFor(simulations(botColor)) = {}
  /\ landingOn(winsFor(simulations(playerColor))) # {}

----------------------------------------------------------------------------
(* BotAI's tree search with its transposition table, killer moves and      *)
(* history table. catMultiplier is 1.5, so scores are counted in halves:   *)
(* every score here is twice the number the code computes, and the         *)
(* comparisons between scores are the code's. The counters nodesSearched,  *)
(* ttHits and ttCutoffs are read by getStats only and are left out.        *)

searchDepth == 2
pieceInCenter == 15
pieceInInnerRing == 8
pieceOnEdge == -5
pieceInCorner == -12
twoInRowCats == 30
twoInRowKittens == 12

\* 1.5 as numerator and denominator
catMultiplier == <<3, 2>>

Halves == catMultiplier[2]

\* stands for Infinity: above every score a search returns
Infinity == 1000000

TT_EXACT == 0
TT_LOWER == 1
TT_UPPER == 2

CENTER_POSITIONS == {<<2, 2>>, <<2, 3>>, <<3, 2>>, <<3, 3>>}

INNER_RING_POSITIONS ==
  {<<1, 1>>, <<1, 2>>, <<1, 3>>, <<1, 4>>, <<2, 1>>, <<2, 4>>,
   <<3, 1>>, <<3, 4>>, <<4, 1>>, <<4, 2>>, <<4, 3>>, <<4, 4>>}

CORNER_POSITIONS == {<<0, 0>>, <<0, 5>>, <<5, 0>>, <<5, 5>>}

isEdgePosition(row, col) == row = 0 \/ row = 5 \/ col = 0 \/ col = 5

\* the value evaluateBoard and orderMoves read for a cell from four numbers
positionValue(row, col, center, innerRing, corner, edge) ==
  IF <<row, col>> \in CENTER_POSITIONS THEN center
  ELSE IF <<row, col>> \in INNER_RING_POSITIONS THEN innerRing
  ELSE IF <<row, col>> \in CORNER_POSITIONS THEN corner
  ELSE IF isEdgePosition(row, col) THEN edge
  ELSE 0

\* the windows of three cells on the board from a cell in a line direction
ThreeCellWindows ==
  {w \in {{<<cell[1] + i * LINE_DIRECTIONS[j][1], cell[2] + i * LINE_DIRECTIONS[j][2]>> :
             i \in 0 .. 2} : cell \in Cells, j \in 1 .. Len(LINE_DIRECTIONS)} :
     w \subseteq Cells}

\* the number of windows with two pieces of the color and type and one empty
\* cell. The scan of a window stops at a position off the board and at any
\* other piece, so no other window reaches pieces = 2 and empty = 1 with
\* three cells; the set `found` of the code holds each window once.
countTwoInRow(b, color, pieceType) ==
  Cardinality({w \in ThreeCellWindows :
                 /\ Cardinality({x \in w : b[x] = [color |-> color, type |-> pieceType]}) = 2
                 /\ Cardinality({x \in w : b[x] = NoPiece}) = 1})

countCatsOnBoard(b, color) ==
  Cardinality({cell \in Cells : b[cell] = [color |-> color, type |-> "cat"]})

RECURSIVE catValueWithDiminishing(_)
catValueWithDiminishing(catCount) ==
  IF catCount <= 0 THEN 0
  ELSE (IF catCount <= 3 THEN <<25, 20, 15>>[catCount] ELSE 8)
       + catValueWithDiminishing(catCount - 1)

\* the sum over the cells lo .. hi, counted in row-major order from 1, of
\* the position values of the pieces, in halves
RECURSIVE positionScore(_, _, _, _)
positionScore(b, forPlayer, lo, hi) ==
  IF lo < hi
    THEN positionScore(b, forPlayer, lo, (lo + hi) \div 2)
         + positionScore(b, forPlayer, (lo + hi) \div 2 + 1, hi)
  ELSE LET row == (lo - 1) \div BOARD_SIZE
           col == (lo - 1) % BOARD_SIZE
           piece == b[<<row, col>>]
           multiplier == IF piece.color = forPlayer THEN 1 ELSE -1
           typeMultiplier == IF piece.type = "cat" THEN catMultiplier[1] ELSE Halves
       IN  IF piece = NoPiece THEN 0
           ELSE multiplier
                * positionValue(row, col, pieceInCenter, pieceInInnerRing,
                                pieceInCorner, pieceOnEdge)
                * typeMultiplier

\* the static evaluation of a state for a player, in halves
evaluateBoard(state, forPlayer) ==
  LET opponent == getOpponentColor(forPlayer)
      ourPlayer == state.players[forPlayer]
      oppPlayer == state.players[opponent]
      threats ==
        countTwoInRow(state.board, forPlayer, "cat") * twoInRowCats
        + countTwoInRow(state.board, forPlayer, "kitten") * twoInRowKittens
        - countTwoInRow(state.board, opponent, "cat") * twoInRowCats
        - countTwoInRow(state.board, opponent, "kitten") * twoInRowKittens
      catAdvantage ==
        IF ourPlayer # NoPlayer /\ oppPlayer # NoPlayer
          THEN catValueWithDiminishing(
                 ourPlayer.catsInPool + countCatsOnBoard(state.board, forPlayer))
               - catValueWithDiminishing(
                   oppPlayer.catsInPool + countCatsOnBoard(state.board, opponent))
          ELSE 0
  IN  positionScore(state.board, forPlayer, 1, BOARD_SIZE * BOARD_SIZE)
      + Halves * threats + Halves * catAdvantage

\* the string hashPosition builds: per cell "." or the first letters of the
\* color and the type, the player to move, and the four pool counts
hashPosition(state, currentPlayer) ==
  LET letter(word) == IF word = "orange" THEN "o"
                      ELSE IF word = "gray" THEN "g"
                      ELSE IF word = "kitten" THEN "k" ELSE "c"
      pool(color) == IF state.players[color] = NoPlayer THEN <<0, 0>>
                     ELSE <<state.players[color].kittensInPool,
                            state.players[color].catsInPool>>
  IN  << [cell \in Cells |->
            IF state.board[cell] = NoPiece THEN <<".">>
            ELSE <<letter(state.board[cell].color), letter(state.board[cell].type)>>],
         currentPlayer,
         pool("orange") \o pool("gray") >>

\* the caches of a bot instance
NoCaches ==
  [transpositionTable |-> <<>>,
   killerMoves |-> [depth \in 0 .. searchDepth |-> <<>>],
   historyTable |-> <<>>]

\* Map.get(key) || fallback
getOr(map, key, fallback) == IF key \in DOMAIN map THEN map[key] ELSE fallback

\* Map.set(key, value)
mapSet(map, key, value) == (key :> value) @@ map

storeKillerMove(caches, move, depth) ==
  LET killers == caches.killerMoves[depth]
      isDuplicate == \E i \in 1 .. Len(killers) : killers[i] = move
      unshifted == <<move>> \o killers
  IN  IF isDuplicate THEN caches
      ELSE [caches EXCEPT !.killerMoves[depth] =
              IF Len(unshifted) > 2 THEN SubSeq(unshifted, 1, Len(unshifted) - 1)
              ELSE unshifted]

\* the key of a move is the string of its row, column and type: the move
updateHistory(caches, move, depth) ==
  [caches EXCEPT !.historyTable =
     mapSet(@, move, getOr(@, move, 0) + depth * depth)]

\* the moves in the order orderMoves returns them, each with its simulation
\* (the search simulates the move again and gets the same result)
orderMoves(state, moves, player, depth, caches) ==
  LET killers == caches.killerMoves[depth]
      oppBooped(sim) ==
        Cardinality({i \in 1 .. Len(sim.boopedPieces) :
                       /\ sim.boopedPieces[i].to = NoCell
                       /\ state.board[sim.boopedPieces[i].from] # NoPiece
                       /\ state.board[sim.boopedPieces[i].from].color # player})
      priorityOf(move, sim) ==
        IF ~sim.valid THEN -10000
        ELSE IF sim.wins THEN 100000
        ELSE IF sim.createsGraduation THEN 50000
        ELSE (IF \E i \in 1 .. Len(killers) : killers[i] = move THEN 40000 ELSE 0)
             + getOr(caches.historyTable, move, 0)
             + positionValue(move.row, move.col, 150, 80, -100, -50)
             + (IF move.pieceType = "cat" THEN 50 ELSE 0)
             + oppBooped(sim) * 200
      scoredOf(i) ==
        bind(simulateMove_result(state, moves[i].row, moves[i].col,
                                 moves[i].pieceType, player),
             LAMBDA sim : [move |-> moves[i], sim |-> sim,
                           priority |-> priorityOf(moves[i], sim), index |-> i])
  IN  SortSeq([i \in 1 .. Len(moves) |-> scoredOf(i)],
              LAMBDA a, b : \/ a.priority > b.priority
                            \/ a.priority = b.priority /\ a.index < b.index)

greater(a, b) == IF a > b THEN a ELSE b
lesser(a, b) == IF a < b THEN a ELSE b

RECURSIVE negamax(_, _, _, _, _, _)
RECURSIVE negamaxMoves(_, _, _, _, _, _, _, _)

\* the score of one ordered move of the player in a node searched to depth,
\* and the caches after it
scoreOfMove(state, scored, depth, player, alpha, beta, caches) ==
  IF scored.sim.wins THEN [score |-> 10000 * Halves, caches |-> caches]
  ELSE bind(buildResultingState(state, scored.sim, player),
            LAMBDA resultingState :
              [negamax(resultingState, depth - 1, getOpponentColor(player),
                       -beta, -alpha, caches) EXCEPT !.score = -@])

\* what one pass of a loop over the moves does with a scored move: node
\* holds alpha, bestScore, bestMove and the caches
passed(node, move, scoredMove) ==
  [node EXCEPT !.alpha = greater(@, scoredMove.score),
               !.bestScore = greater(@, scoredMove.score),
               !.bestMove = IF scoredMove.score > node.bestScore THEN move ELSE @,
               !.caches = scoredMove.caches]

\* one pass of the loop of negamax; broken marks the break of the loop
negamaxMove(state, depth, currentPlayer, scored, beta, node) ==
  IF ~scored.sim.valid THEN node
  ELSE bind(scoreOfMove(state, scored, depth, currentPlayer, node.alpha, beta,
                        node.caches),
            LAMBDA scoredMove :
              bind(passed(node, scored.move, scoredMove),
                   LAMBDA after :
                     IF after.alpha >= beta
                       THEN [after EXCEPT
                               !.caches = updateHistory(
                                            storeKillerMove(@, scored.move, depth),
                                            scored.move, depth),
                               !.broken = TRUE]
                       ELSE after))

\* the loop of negamax over the ordered moves lo .. hi, in order: the
\* first half, then the second half from the node the first half leaves
negamaxMoves(state, depth, currentPlayer, orderedMoves, lo, hi, beta, node) ==
  IF node.broken \/ lo > hi THEN node
  ELSE IF lo = hi
    THEN negamaxMove(state, depth, currentPlayer, orderedMoves[lo], beta, node)
  ELSE bind(negamaxMoves(state, depth, currentPlayer, orderedMoves, lo,
                         (lo + hi) \div 2, beta, node),
            LAMBDA half :
              negamaxMoves(state, depth, currentPlayer, orderedMoves,
                           (lo + hi) \div 2 + 1, hi, beta, half))

\* negamax: the score of the state for currentPlayer, and the caches after
\* the call
negamax(state, depth, currentPlayer, alpha, beta, caches) ==
  LET searched(posHash, windowAlpha, windowBeta) ==
        bind(getAllValidMoves(state, currentPlayer),
             LAMBDA moves :
               IF depth <= 0 \/ state.phase = "finished" \/ Len(moves) = 0
                 THEN [score |-> evaluateBoard(state, currentPlayer), caches |-> caches]
               ELSE bind(orderMoves(state, moves, currentPlayer, depth, caches),
                         LAMBDA orderedMoves :
                           bind(negamaxMoves(state, depth, currentPlayer, orderedMoves,
                                             1, Len(orderedMoves), windowBeta,
                                             [alpha |-> windowAlpha,
                                              bestScore |-> -Infinity,
                                              bestMove |-> NoMove,
                                              caches |-> caches,
                                              broken |-> FALSE]),
                                LAMBDA node :
                                  [score |-> node.bestScore,
                                   caches |->
                                     [node.caches EXCEPT !.transpositionTable =
                                        mapSet(@, posHash,
                                               [hash |-> posHash,
                                                depth |-> depth,
                                                score |-> node.bestScore,
                                                flag |-> IF node.bestScore <= windowAlpha
                                                           THEN TT_UPPER
                                                         ELSE IF node.bestScore >= windowBeta
                                                           THEN TT_LOWER
                                                         ELSE TT_EXACT,
                                                bestMove |-> node.bestMove])]])))
      probed(posHash) ==
        LET ttEntry == getOr(caches.transpositionTable, posHash, [depth |-> -1])
            windowAlpha == IF ttEntry.flag = TT_LOWER THEN greater(alpha, ttEntry.score)
                           ELSE alpha
            windowBeta == IF ttEntry.flag = TT_UPPER THEN lesser(beta, ttEntry.score)
                          ELSE beta
        IN  IF ttEntry.depth >= 0 /\ ttEntry.depth >= depth
              THEN IF ttEntry.flag = TT_EXACT \/ windowAlpha >= windowBeta
                     THEN [score |-> ttEntry.score, caches |-> caches]
                     ELSE searched(posHash, windowAlpha, windowBeta)
              ELSE searched(posHash, alpha, beta)
  IN  bind(hashPosition(state, currentPlayer), probed)

RECURSIVE searchRootMoves(_, _, _, _, _, _, _)
\* the loop of searchRoot over the ordered moves lo .. hi, in order
searchRootMoves(state, depth, color, orderedMoves, lo, hi, node) ==
  IF lo > hi THEN node
  ELSE IF lo = hi
    THEN IF ~orderedMoves[lo].sim.valid THEN node
         ELSE bind(scoreOfMove(state, orderedMoves[lo], depth, color, node.alpha,
                               Infinity, node.caches),
                   LAMBDA scoredMove : passed(node, orderedMoves[lo].move, scoredMove))
  ELSE bind(searchRootMoves(state, depth, color, orderedMoves, lo, (lo + hi) \div 2,
                            node),
            LAMBDA half :
              searchRootMoves(state, depth, color, orderedMoves,
                              (lo + hi) \div 2 + 1, hi, half))

\* searchRoot of the bot of a color: the move, its score and the caches
searchRoot(state, moves, depth, color, caches) ==
  bind(orderMoves(state, moves, color, depth, caches),
       LAMBDA orderedMoves :
         bind(searchRootMoves(state, depth, color, orderedMoves, 1,
                              Len(orderedMoves),
                              [alpha |-> -Infinity, bestScore |-> -Infinity,
                               bestMove |-> orderedMoves[1].move, caches |-> caches]),
              LAMBDA node : [move |-> node.bestMove, score |-> node.bestScore,
                             caches |-> node.caches]))

\* the iterations of pickBestByTreeSearch from a depth on; found holds the
\* move and the score of the last iteration, the scores of all iterations
\* and the caches
RECURSIVE deepen(_, _, _, _, _)
deepen(state, moves, color, depth, found) ==
  IF depth > searchDepth THEN found
  ELSE bind(searchRoot(state, moves, depth, color, found.caches),
            LAMBDA iteration :
              bind([move |-> iteration.move,
                    scores |-> Append(found.scores, iteration.score),
                    caches |-> iteration.caches],
                   LAMBDA next :
                     IF iteration.score >= 9000 * Halves THEN next
                     ELSE deepen(state, moves, color, depth + 1, next)))

\* pickBestByTreeSearch with the caches of the instance: the move it
\* returns, the best score of each iteration and the caches afterwards
treeSearch(state, moves, color, caches) ==
  IF Len(moves) = 1 THEN [move |-> moves[1], scores |-> <<>>, caches |-> caches]
  ELSE deepen(state, moves, color, 1,
              [move |-> moves[1], scores |-> <<>>, caches |-> caches])

----------------------------------------------------------------------------
(* A game against the bot with the search it runs: the bot instance of the *)
(* game keeps its transposition table from one findBestMove to the next    *)
(* and clears killerMoves and historyTable at the start of each.           *)

\* the list findBestMove passes to pickBestByTreeSearch when no move wins
searchedMoves(state, allMoves, color) ==
  LET tier4(blockGraduationMoves) ==
        IF Len(blockGraduationMoves) > 0 THEN blockGraduationMoves ELSE allMoves
      tier3(graduationMoves) ==
        IF Len(graduationMoves) > 0 THEN graduationMoves
        ELSE bind(findBlockGraduationMoves(state, allMoves, color), tier4)
      tier2(blockingMoves) ==
        IF Len(blockingMoves) > 0 THEN blockingMoves
        ELSE bind(findGraduationMoves(state, allMoves, color), tier3)
  IN  bind(findBlockingMoves(state, allMoves, color), tier2)

\* findBestMove of the bot of a color whose instance holds the table: the
\* moves it can return, each with the table the instance holds afterwards
findBestMove_searched(state, color, table) ==
  LET searched(moves) ==
        bind(treeSearch(state, moves, color,
                        [NoCaches EXCEPT !.transpositionTable = table]),
             LAMBDA best : {[move |-> best.move,
                             table |-> best.caches.transpositionTable]})
      tier1(allMoves, winningMoves) ==
        IF Len(winningMoves) > 0
          THEN {[move |-> move, table |-> table] : move \in pickRandom(winningMoves)}
          ELSE bind(searchedMoves(state, allMoves, color), searched)
  IN  bind(getAllValidMoves(state, color),
           LAMBDA allMoves :
             IF Len(allMoves) = 0 THEN {[move |-> NoMove, table |-> table]}
             ELSE bind(findWinningMoves(state, allMoves, color),
                       LAMBDA winningMoves : tier1(allMoves, winningMoves)))

\* the human puts back the kitten the bot pushed off the board and pushes
\* the kitten of the bot off: the bot searches the same position again
SearchGameRepeat ==
  << Place("local-player", 0, 2, "kitten"), BotMove(2, 2, "kitten"),
     Place("local-player", 0, 4, "kitten"), BotMove(1, 5, "kitten"),
     Place("local-player", 0, 4, "kitten"), BotMove(1, 5, "kitten") >>

\* the same on the other side of the board
SearchGameRepeatLeft ==
  << Place("local-player", 0, 1, "kitten"), BotMove(2, 3, "kitten"),
     Place("local-player", 0, 3, "kitten"), BotMove(1, 0, "kitten"),
     Place("local-player", 0, 1, "kitten"), BotMove(1, 0, "kitten") >>

SearchGames == {SearchGameRepeat, SearchGameRepeatLeft}

SearchScripts ==
  UNION {{SubSeq(game, 1, n) : n \in 0 .. Len(game)} : game \in SearchGames}

InitSearch ==
  /\ board = createInitialGameState.board
  /\ players = createInitialGameState.players
  /\ currentTurn = createInitialGameState.currentTurn
  /\ phase = createInitialGameState.phase
  /\ winner = createInitialGameState.winner
  /\ lastMove = createInitialGameState.lastMove
  /\ boopedPieces = createInitialGameState.boopedPieces
  /\ graduatedPieces = createInitialGameState.graduatedPieces
  /\ pendingGraduationOptions = createInitialGameState.pendingGraduationOptions
  /\ pendingGraduationPlayer = createInitialGameState.pendingGraduationPlayer
  /\ call = NoCall
  /\ result = NoResult
  /\ script \in SearchScripts
  /\ steps = 0
  /\ playerRooms = {}
  /\ playerTokens = [s \in Connections |-> "none"]
  /\ disconnectedPlayers = [t \in Tokens |-> NoRecord]
  /\ closed = {}
  /\ transpositionTable = <<>>
  /\ moveCount = 0

\* the timer callback of executeBotMove: the bot searches with the table it
\* holds and keeps the table of the search; a recorded move is made when it
\* is the move the search returns
SearchBotMove ==
  /\ phase = "playing"
  /\ currentTurn = botColor
  /\ script # <<>> \/ steps < MaxSteps
  /\ \E best \in findBestMove_searched(This, botColor, transpositionTable) :
       LET x == BotMove(best.move.row, best.move.col, best.move.pieceType)
           r == useBotGame_executeBotMove(This, best.move)
       IN  /\ script # <<>> => x = Head(script)
           /\ Performs(x, r.newState, Resolved(r))
           /\ transpositionTable' = best.table
           /\ UNCHANGED moveCount

NextSearch ==
  \/ HumanPlacePiece
  \/ HumanSelectGraduation
  \/ SearchBotMove

SpecSearch == InitSearch /\ [][NextSearch]_vars

\* C39: in every state of a game against the bot in which the bot is to
\* search for its move and its transposition table holds entries of its
\* earlier searches, searchRoot returns for the candidate list of the state
\* and every depth up to searchDepth the same best score with the table the
\* instance holds as with an empty table.
C39_CacheTransparency ==
  (/\ phase = "playing" /\ currentTurn = botColor
   /\ script # <<>> \/ steps < MaxSteps
   /\ transpositionTable # <<>>)
    => bind(getAllValidMoves(This, botColor),
            LAMBDA allMoves :
              (Len(allMoves) > 0 /\ Len(findWinningMoves(This, allMoves, botColor)) = 0)
                => bind(searchedMoves(This, allMoves, botColor),
                        LAMBDA moves :
                          \A depth \in 1 .. searchDepth :
                            searchRoot(This, moves, depth, botColor,
                                       [NoCaches EXCEPT !.transpositionTable =
                                                          transpositionTable]).score
                              = searchRoot(This, moves, depth, botColor,
                                           NoCaches).score))

----------------------------------------------------------------------------
(* A game between two bots: the loop of runBotVsBotGame and of             *)
(* runSingleGame. The loop's state is held in the engine's fields and its  *)
(* moveCount in the variable of that name; the bot of the side to move     *)
(* returns any move findBestMove can return for some configuration.        *)

maxMoves == 200

Move(color, row, col, pieceType) ==
  [NoCall EXCEPT !.op = "executeMove", !.color = color, !.row = row, !.col = col,
                 !.pieceType = pieceType]

\* the loop has been left and the function has returned
Return == [NoCall EXCEPT !.op = "return"]

\* the calls of executeMove of a game whose moves are given in order,
\* orange moving first
Moves(game) ==
  [i \in 1 .. Len(game) |->
     Move(IF i % 2 = 1 THEN "orange" ELSE "gray", game[i][1], game[i][2], game[i][3])]

\* the game two bots of the default configuration play: gray wins with its
\* 30th move
BotVsBotDefault ==
  Moves(<<
     <<2, 2, "kitten">>, <<2, 3, "kitten">>, <<2, 2, "kitten">>,
     <<3, 2, "kitten">>, <<2, 3, "kitten">>, <<3, 3, "kitten">>,
     <<3, 2, "kitten">>, <<4, 3, "kitten">>, <<0, 4, "kitten">>,
     <<2, 2, "cat">>, <<3, 3, "cat">>, <<2, 2, "cat">>,
     <<1, 1, "cat">>, <<2, 2, "cat">>, <<1, 1, "cat">>,
     <<1, 2, "cat">>, <<2, 2, "cat">>, <<5, 1, "kitten">>,
     <<3, 3, "kitten">>, <<2, 2, "cat">>, <<1, 2, "cat">>,
     <<1, 1, "cat">>, <<2, 2, "cat">>, <<0, 2, "cat">>,
     <<0, 1, "cat">>, <<2, 3, "cat">>, <<1, 3, "kitten">>,
     <<3, 3, "cat">>, <<4, 2, "cat">>, <<2, 2, "cat">> >>)

\* the game the variant EdgeHater (orange) plays against the variant
\* CenterLover (gray) in the tournament: the 21st move, of orange, gives
\* orange a choice between graduations
BotVsBotEdgeHater ==
  Moves(<<
     <<2, 2, "kitten">>, <<2, 3, "kitten">>, <<2, 2, "kitten">>,
     <<3, 2, "kitten">>, <<2, 3, "kitten">>, <<3, 3, "kitten">>,
     <<3, 2, "kitten">>, <<4, 3, "kitten">>, <<0, 4, "kitten">>,
     <<2, 2, "cat">>, <<3, 3, "cat">>, <<2, 2, "cat">>,
     <<1, 1, "kitten">>, <<3, 3, "cat">>, <<4, 4, "cat">>,
     <<3, 2, "kitten">>, <<3, 1, "cat">>, <<3, 4, "kitten">>,
     <<2, 3, "cat">>, <<3, 3, "cat">>, <<2, 2, "kitten">> >>)

\* the game the variant Baseline (orange) plays against the variant
\* DeepThinker (gray): orange wins with its 21st move
BotVsBotDeepThinker ==
  Moves(<<
     <<2, 2, "kitten">>, <<3, 3, "kitten">>, <<2, 2, "kitten">>,
     <<1, 2, "kitten">>, <<2, 2, "kitten">>, <<2, 3, "kitten">>,
     <<3, 3, "kitten">>, <<2, 4, "kitten">>, <<3, 3, "kitten">>,
     <<3, 2, "cat">>, <<2, 0, "kitten">>, <<5, 0, "cat">>,
     <<4, 1, "cat">>, <<3, 1, "cat">>, <<3, 2, "cat">>,
     <<2, 1, "cat">>, <<2, 3, "cat">>, <<3, 3, "kitten">>,
     <<5, 4, "cat">>, <<4, 1, "cat">>, <<1, 4, "cat">> >>)

BotVsBotGames ==
  {BotVsBotDefault, BotVsBotEdgeHater, BotVsBotDeepThinker}

\* the replay of a game stops after every PrefixStep-th move and at its end
PrefixStep == 5

BotVsBotScripts ==
  UNION {{SubSeq(game, 1, n) :
            n \in {m \in 0 .. Len(game) : m % PrefixStep = 0 \/ m = Len(game)}} :
           game \in BotVsBotGames}

InitBotVsBot ==
  /\ board = createInitialGameState.board
  /\ players = createInitialGameState.players
  /\ currentTurn = createInitialGameState.currentTurn
  /\ phase = createInitialGameState.phase
  /\ winner = createInitialGameState.winner
  /\ lastMove = createInitialGameState.lastMove
  /\ boopedPieces = createInitialGameState.boopedPieces
  /\ graduatedPieces = createInitialGameState.graduatedPieces
  /\ pendingGraduationOptions = createInitialGameState.pendingGraduationOptions
  /\ pendingGraduationPlayer = createInitialGameState.pendingGraduationPlayer
  /\ call = NoCall
  /\ result = NoResult
  /\ script \in BotVsBotScripts
  /\ steps = 0
  /\ playerRooms = {}
  /\ playerTokens = [s \in Connections |-> "none"]
  /\ disconnectedPlayers = [t \in Tokens |-> NoRecord]
  /\ closed = {}
  /\ transpositionTable = <<>>
  /\ moveCount = 0

\* the return statement: winner is state.winner || 'draw', totalMoves is
\* moveCount
runBotVsBotGame_return ==
  /\ call' = Return
  /\ result' = [NoResult EXCEPT !.winner = IF winner = "none" THEN "draw" ELSE winner,
                                !.ret = moveCount]
  /\ UNCHANGED <<engineVars, roomVars, script, steps, transpositionTable, moveCount>>

\* one pass through the body of the loop: the bot of the side to move is
\* asked for its move, the move is executed and counted; a null move and a
\* rejected move leave the loop
runBotVsBotGame_body ==
  /\ call # Return
  /\ phase = "playing" /\ moveCount < maxMoves
  /\ script # <<>> \/ steps < MaxSteps
  /\ \E move \in findBestMove(This, currentTurn) :
       LET x == Move(currentTurn, move.row, move.col, move.pieceType)
           exe == executeMove(This, move.row, move.col, move.pieceType,
                              currentTurn).result
       IN  /\ script # <<>> => x = Head(script)
           /\ IF move = NoMove \/ ~exe.valid THEN runBotVsBotGame_return
              ELSE /\ Performs(x, exe.newState, [NoResult EXCEPT !.valid = TRUE])
                   /\ moveCount' = moveCount + 1
                   /\ UNCHANGED transpositionTable

\* the condition of the loop is false
runBotVsBotGame_exit ==
  /\ call # Return
  /\ ~(phase = "playing" /\ moveCount < maxMoves)
  /\ runBotVsBotGame_return

NextBotVsBot ==
  \/ runBotVsBotGame_body
  \/ runBotVsBotGame_exit

SpecBotVsBot == InitBotVsBot /\ [][NextBotVsBot]_vars

\* C40: whenever runBotVsBotGame or runSingleGame has returned, it has
\* executed at most 200 moves, and the state it returns from has a winner,
\* or the 200 moves have been executed, or the side to move has no legal
\* move.
C40_EndsForAReason ==
  call = Return
    => /\ moveCount <= maxMoves
       /\ \/ winner # "none"
          \/ moveCount >= maxMoves
          \/ legalMoves(This, currentTurn) = {}

====
